---- MODULE Spec2Model ----
(***************************************************************************)
(* Model of the Dispetcherskaya map page (src/src/map.js) and of its       *)
(* consistency checker (src/scripts/validateAreas.js).                     *)
(*                                                                         *)
(* Text is a sequence of one-character strings.  JavaScript values are     *)
(* tagged records (field t).  Cyrillic literals of the source are written  *)
(* transliterated, since module text is ASCII.                             *)
(***************************************************************************)
EXTENDS Integers, Sequences, FiniteSets, TLC

VARIABLES
    host,                   \* window.mapImagePath, interactiveAreasData, externalData,
                            \* location.protocol: set by the embedding page
    pc,                     \* "loading" until DOMContentLoaded has run bootstrap
    parsedData,             \* map.js globals
    interactiveAreas,
    mapReady,
    areasReady,
    mapLoadFallbackTried,
    popupTimer,             \* a timer id, 0 for null
    image,                  \* the #map-image element
    mapErrorVisible,        \* #map-error-overlay has class visible
    loadingVisible,         \* #map-loading has class visible
    status,                 \* the #data-status indicator
    overlays,               \* the children of #interactive-areas
    popup,                  \* the #popup element
    timers,                 \* the browser's active timers
    nextTimerId,
    fetchState,             \* the fetch of the region resource
    srcSets,                \* history: assignments to mapImage.src
    loadFailures,           \* history: error events of the image
    parseFailed,            \* history: a payload failed parsing or validation
    lastPointer,            \* history: the last pointer event on a region
    enters,                 \* history: pointer-enter events
    call,                   \* the pure function under test and its arguments
    out                     \* its result ([done |-> FALSE] before the call)

fnVars == <<call, out>>

pageVars ==
    <<host, pc, parsedData, interactiveAreas, mapReady, areasReady, mapLoadFallbackTried,
      popupTimer, image, mapErrorVisible, loadingVisible, status, overlays, popup, timers,
      nextTimerId, fetchState, srcSets, loadFailures, parseFailed, lastPointer, enters>>

vars == <<pageVars, fnVars>>

-----------------------------------------------------------------------------
(* Text helpers: String.prototype.trim, replace(/\s+/g,' '), toLowerCase,  *)
(* includes.                                                               *)

\* LET x == e IN F(x), with e evaluated once.
With(e, F(_)) == CHOOSE r \in {F(x) : x \in {e}} : TRUE

MinOf(S) == CHOOSE m \in S : \A n \in S : m <= n
MaxOf(S) == CHOOSE m \in S : \A n \in S : m >= n

IsSpace(c) == c \in {" ", "\t", "\n", "\r"}

IsDigit(c) == c \in {"0", "1", "2", "3", "4", "5", "6", "7", "8", "9"}

\* s[a..b], cut to the text.
Slice(s, a, b) ==
    SubSeq(s, IF a < 1 THEN 1 ELSE a, IF b > Len(s) THEN Len(s) ELSE b)

Trim(s) ==
    With({i \in 1..Len(s) : ~IsSpace(s[i])}, LAMBDA solid :
        IF solid = {} THEN <<>> ELSE SubSeq(s, MinOf(solid), MaxOf(solid)))

RECURSIVE DropSpaces(_)
DropSpaces(s) ==
    IF s # <<>> /\ IsSpace(Head(s)) THEN DropSpaces(Tail(s)) ELSE s

RECURSIVE CollapseSpaces(_)
CollapseSpaces(s) ==
    IF s = <<>> THEN <<>>
    ELSE IF IsSpace(Head(s)) THEN <<" ">> \o CollapseSpaces(DropSpaces(Tail(s)))
    ELSE <<Head(s)>> \o CollapseSpaces(Tail(s))

LowerChar(c) ==
    CASE c = "A" -> "a" [] c = "B" -> "b" [] c = "C" -> "c" [] c = "D" -> "d"
      [] c = "E" -> "e" [] c = "F" -> "f" [] c = "G" -> "g" [] c = "H" -> "h"
      [] c = "I" -> "i" [] c = "J" -> "j" [] c = "K" -> "k" [] c = "L" -> "l"
      [] c = "M" -> "m" [] c = "N" -> "n" [] c = "O" -> "o" [] c = "P" -> "p"
      [] c = "Q" -> "q" [] c = "R" -> "r" [] c = "S" -> "s" [] c = "T" -> "t"
      [] c = "U" -> "u" [] c = "V" -> "v" [] c = "W" -> "w" [] c = "X" -> "x"
      [] c = "Y" -> "y" [] c = "Z" -> "z" [] OTHER -> c

ToLowerCase(s) == [i \in 1..Len(s) |-> LowerChar(s[i])]

Includes(hay, needle) ==
    \E i \in 0..(Len(hay) - Len(needle)) : SubSeq(hay, i + 1, i + Len(needle)) = needle

StartsWith(s, p) == Len(s) >= Len(p) /\ SubSeq(s, 1, Len(p)) = p

EndsWith(s, p) == Len(s) >= Len(p) /\ SubSeq(s, Len(s) - Len(p) + 1, Len(s)) = p

\* replace(/c/g, r): every occurrence of the character c.
RECURSIVE ReplaceAllChar(_, _, _)
ReplaceAllChar(s, c, r) ==
    With({i \in 1..Len(s) : s[i] = c}, LAMBDA hits :
        IF hits = {} THEN s
        ELSE With(SubSeq(s, MinOf(hits) + 1, Len(s)), LAMBDA rest :
                 SubSeq(s, 1, MinOf(hits) - 1) \o r \o ReplaceAllChar(rest, c, r)))

\* String.prototype.replace with a string pattern: the first occurrence only.
ReplaceFirstChar(s, c, r) ==
    With({i \in 1..Len(s) : s[i] = c}, LAMBDA hits :
        IF hits = {} THEN s
        ELSE SubSeq(s, 1, MinOf(hits) - 1) \o r \o SubSeq(s, MinOf(hits) + 1, Len(s)))

-----------------------------------------------------------------------------
(* JavaScript values.  A number is NaN, +-Infinity or a finite decimal     *)
(* m * 10^(-e), kept normalised (m has no trailing zero while e > 0).      *)

Undefined == [t |-> "undefined"]
Null == [t |-> "null"]
Bool(b) == [t |-> "bool", b |-> b]
Str(s) == [t |-> "str", s |-> s]
Obj(f) == [t |-> "obj", f |-> f]
Arr(a) == [t |-> "arr", a |-> a]
NaN == [t |-> "num", k |-> "nan", m |-> 0, e |-> 0]
Infinity == [t |-> "num", k |-> "inf", m |-> 1, e |-> 0]
NegInfinity == [t |-> "num", k |-> "inf", m |-> -1, e |-> 0]

RECURSIVE Pow10(_)
Pow10(n) == IF n = 0 THEN 1 ELSE 10 * Pow10(n - 1)

RECURSIVE Normalised(_, _)
Normalised(m, e) ==
    IF e > 0 /\ m % 10 = 0 THEN Normalised(m \div 10, e - 1)
    ELSE [t |-> "num", k |-> "fin", m |-> m, e |-> e]

Dec(m, e) == Normalised(m, e)
Num(n) == Dec(n, 0)

IsFinite(v) == v.t = "num" /\ v.k = "fin"

\* Finite numbers brought to a common scale for + and comparison.
Scaled(a, e) == a.m * Pow10(e - a.e)
MaxE(a, b) == IF a.e >= b.e THEN a.e ELSE b.e
NumAdd(a, b) == Dec(Scaled(a, MaxE(a, b)) + Scaled(b, MaxE(a, b)), MaxE(a, b))
NumGt(a, b) == Scaled(a, MaxE(a, b)) > Scaled(b, MaxE(a, b))
NumLeqZero(a) == a.m <= 0
NumLtZero(a) == a.m < 0

\* obj[key]: undefined when the object has no such property.
Get(o, key) ==
    IF o.t = "obj" /\ key \in DOMAIN o.f THEN o.f[key] ELSE Undefined

\* ToBoolean.
Truthy(v) ==
    CASE v.t = "undefined" -> FALSE
      [] v.t = "null" -> FALSE
      [] v.t = "bool" -> v.b
      [] v.t = "num" -> ~(v.k = "nan" \/ (v.k = "fin" /\ v.m = 0))
      [] v.t = "str" -> v.s # <<>>
      [] OTHER -> TRUE

DigitChar(d) == <<"0", "1", "2", "3", "4", "5", "6", "7", "8", "9">>[d + 1]

RECURSIVE NatDigits(_)
NatDigits(n) ==
    IF n < 10 THEN <<DigitChar(n)>> ELSE NatDigits(n \div 10) \o <<DigitChar(n % 10)>>

RECURSIVE PadLeft(_, _)
PadLeft(s, n) == IF Len(s) >= n THEN s ELSE PadLeft(<<"0">> \o s, n)

Abs(n) == IF n < 0 THEN -n ELSE n

\* Number.prototype.toString for the decimals of the model (no exponent form).
NumToString(v) ==
    CASE v.k = "nan" -> <<"N", "a", "N">>
      [] v.k = "inf" ->
            (IF v.m < 0 THEN <<"-">> ELSE <<>>)
                \o <<"I", "n", "f", "i", "n", "i", "t", "y">>
      [] OTHER ->
            (IF v.m < 0 THEN <<"-">> ELSE <<>>)
                \o NatDigits(Abs(v.m) \div Pow10(v.e))
                \o (IF v.e = 0 THEN <<>>
                    ELSE <<".">> \o PadLeft(NatDigits(Abs(v.m) % Pow10(v.e)), v.e))

\* String(value) for scalars and plain objects.
JsString(v) ==
    CASE v.t = "undefined" -> <<"u", "n", "d", "e", "f", "i", "n", "e", "d">>
      [] v.t = "null" -> <<"n", "u", "l", "l">>
      [] v.t = "bool" ->
            IF v.b THEN <<"t", "r", "u", "e">> ELSE <<"f", "a", "l", "s", "e">>
      [] v.t = "num" -> NumToString(v)
      [] v.t = "str" -> v.s
      [] OTHER -> <<"[", "o", "b", "j", "e", "c", "t", " ", "O", "b", "j", "e", "c", "t", "]">>

-----------------------------------------------------------------------------
(* The Matcher: map.js normalizeStringValue and filterDataByObject.        *)

normalizeStringValue(value) ==
    IF value.t \in {"undefined", "null"} THEN <<>>
    ELSE ToLowerCase(CollapseSpaces(Trim(JsString(value))))

\* The callback of dataArray.filter.
filterCallback_NoReverseContainment(item, matchField, normalizedMatchValue) ==
    LET fieldValue == Get(item, matchField)
        normalizedFieldValue == normalizeStringValue(fieldValue)
    IN  /\ Truthy(fieldValue)
        /\ \/ normalizedFieldValue = normalizedMatchValue
           \/ Includes(normalizedFieldValue, normalizedMatchValue)

filterCallback(item, matchField, normalizedMatchValue) ==
    LET fieldValue == Get(item, matchField)
        normalizedFieldValue == normalizeStringValue(fieldValue)
    IN  /\ Truthy(fieldValue)
        /\ \/ normalizedFieldValue = normalizedMatchValue
           \/ Includes(normalizedFieldValue, normalizedMatchValue)
           \/ Includes(normalizedMatchValue, normalizedFieldValue)

filterDataByObject(dataArray, matchField, matchValue) ==
    IF ~Truthy(dataArray) \/ dataArray.t # "arr" THEN <<>>
    ELSE LET normalizedMatchValue == normalizeStringValue(matchValue)
             Keep(item) == filterCallback(item, matchField, normalizedMatchValue)
         IN  SelectSeq(dataArray.a, Keep)

\* showPopup's call of the Matcher (map.js 330-338): matchValue || name, and
\* matchField || 'prichal' (the source's default field name, transliterated).
JsOr(a, b) == IF Truthy(a) THEN a ELSE b

K_name == <<"n", "a", "m", "e">>
K_x == <<"x">>
K_y == <<"y">>
K_width == <<"w", "i", "d", "t", "h">>
K_height == <<"h", "e", "i", "g", "h", "t">>
K_matchField == <<"m", "a", "t", "c", "h", "F", "i", "e", "l", "d">>
K_matchValue == <<"m", "a", "t", "c", "h", "V", "a", "l", "u", "e">>
DefaultMatchField == <<"p", "r", "i", "c", "h", "a", "l">>

popupFilteredData(areaConfig, data) ==
    LET normalizedMatchValue ==
            Str(normalizeStringValue(JsOr(Get(areaConfig, K_matchValue),
                                          Get(areaConfig, K_name))))
    IN  filterDataByObject(data,
                           JsString(JsOr(Get(areaConfig, K_matchField),
                                         Str(DefaultMatchField))),
                           normalizedMatchValue)

-----------------------------------------------------------------------------
(* The consistency checker's matching loop: validateAreas.js normalize and *)
(* the areas.forEach of main.                                              *)

normalize(value) ==
    IF value.t \in {"undefined", "null"} THEN <<>>
    ELSE ToLowerCase(Trim(JsString(value)))

\* The body of areas.forEach in main: the warning pushed for one area
\* ("none" when the area has a matching record).
areaWarning(area, data) ==
    LET rawField == Get(area, K_matchField)
        rawValue == IF Get(area, K_matchValue) # Undefined
                    THEN Get(area, K_matchValue) ELSE Get(area, K_name)
        matchField == IF rawField.t = "str" THEN Trim(rawField.s) ELSE <<>>
        matchValue == IF rawValue.t = "str" THEN Trim(rawValue.s) ELSE <<>>
        normalizedValue == normalize(Str(matchValue))
        hasMatch == \E i \in 1..Len(data) :
                        LET candidate == Get(data[i], matchField)
                        IN  /\ candidate.t \notin {"undefined", "null"}
                            /\ normalize(candidate) = normalizedValue
    IN  IF matchField = <<>> THEN "matchField is missing or empty"
        ELSE IF matchValue = <<>> THEN "matchValue is missing or empty"
        ELSE IF ~hasMatch THEN "Value not found in field"
        ELSE "none"

-----------------------------------------------------------------------------
(* ToNumber, as used by Number(...) in validateInteractiveAreasData and    *)
(* validateAreaBounds.  String literals are decimal (optional sign and     *)
(* fraction) or Infinity; exponent and radix-prefixed literals are outside *)
(* the inputs of the model.                                                *)

RECURSIVE DigitsToNat(_, _)
DigitsToNat(s, acc) ==
    IF s = <<>> THEN acc
    ELSE DigitsToNat(Tail(s), 10 * acc + (CHOOSE d \in 0..9 : DigitChar(d) = Head(s)))

AllDigits(s) == \A i \in 1..Len(s) : IsDigit(s[i])

InfinityText == <<"I", "n", "f", "i", "n", "i", "t", "y">>

\* An unsigned decimal literal: digits, digits. , digits.digits or .digits
UnsignedToNumber(s) ==
    With({i \in 1..Len(s) : s[i] = "."}, LAMBDA dots :
        IF s = InfinityText THEN Infinity
        ELSE IF dots = {} THEN
            (IF s # <<>> /\ AllDigits(s) THEN Num(DigitsToNat(s, 0)) ELSE NaN)
        ELSE With(SubSeq(s, 1, MinOf(dots) - 1), LAMBDA ip :
             With(SubSeq(s, MinOf(dots) + 1, Len(s)), LAMBDA fp :
                 IF AllDigits(ip) /\ AllDigits(fp) /\ Len(ip) + Len(fp) > 0
                 THEN Dec(DigitsToNat(ip \o fp, 0), Len(fp))
                 ELSE NaN)))

Negated(v) ==
    IF v.k = "nan" THEN v ELSE [v EXCEPT !.m = -v.m]

StringToNumber(s) ==
    With(Trim(s), LAMBDA t :
        IF t = <<>> THEN Num(0)
        ELSE IF Head(t) \in {"-", "+"}
        THEN With(Tail(t), LAMBDA digits :
                 IF Head(t) = "-" THEN Negated(UnsignedToNumber(digits))
                 ELSE UnsignedToNumber(digits))
        ELSE UnsignedToNumber(t))

ToNumber(v) ==
    CASE v.t = "undefined" -> NaN
      [] v.t = "null" -> Num(0)
      [] v.t = "bool" -> (IF v.b THEN Num(1) ELSE Num(0))
      [] v.t = "num" -> v
      [] v.t = "str" -> StringToNumber(v.s)
      [] OTHER -> NaN

-----------------------------------------------------------------------------
(* JSON.parse on text: objects, arrays, strings (escapes \" \\ \/ \n \t    *)
(* \r), decimal numbers and the three literals.  \b, \f, \u escapes and    *)
(* exponents are outside the inputs of the model.  A result is             *)
(* [ok, v, i]: whether the text parsed, the value, the next position.      *)

Fail == [ok |-> FALSE, v |-> Undefined, i |-> 0]
Ok(v, i) == [ok |-> TRUE, v |-> v, i |-> i]

IsJsonSpace(c) == c \in {" ", "\t", "\n", "\r"}

\* The first position from i on whose character is in stop; past the end of
\* the text if there is none.
RunEnd(s, i, stop) ==
    With({j \in i..Len(s) : s[j] \in stop}, LAMBDA hits :
        IF hits # {} THEN MinOf(hits) ELSE IF i > Len(s) THEN i ELSE Len(s) + 1)

\* The first position from i on whose character is not in skip.
SkipRun(s, i, skip) ==
    With({j \in i..Len(s) : s[j] \notin skip}, LAMBDA hits :
        IF hits # {} THEN MinOf(hits) ELSE IF i > Len(s) THEN i ELSE Len(s) + 1)

SkipJsonSpace(s, i) == SkipRun(s, i, {" ", "\t", "\n", "\r"})

At(s, i) == IF i >= 1 /\ i <= Len(s) THEN s[i] ELSE "EOF"

\* The character an escape \e stands for; "EOF" when the escape is not one
\* of the model's.
Unescaped(e) ==
    CASE e \in {"\"", "\\", "/"} -> e
      [] e = "n" -> "\n"
      [] e = "t" -> "\t"
      [] e = "r" -> "\r"
      [] OTHER -> "EOF"

\* The characters of a string literal from position i0 (after the opening
\* quote, or after an escape) up to the closing quote.
RECURSIVE JsonStringBody(_, _, _)
JsonStringBody(s, i0, acc) ==
    With(RunEnd(s, i0, {"\"", "\\", "\t", "\n", "\r"}), LAMBDA j :
        IF j > Len(s) THEN Fail
        ELSE With(acc \o SubSeq(s, i0, j - 1), LAMBDA plain :
            IF s[j] = "\"" THEN Ok(Str(plain), j + 1)
            ELSE IF s[j] \in {"\t", "\n", "\r"} THEN Fail
            ELSE IF Unescaped(At(s, j + 1)) = "EOF" THEN Fail
            ELSE With(Append(plain, Unescaped(At(s, j + 1))), LAMBDA more :
                     JsonStringBody(s, j + 2, more))))

DigitRunEnd(s, i) == SkipRun(s, i, {"0", "1", "2", "3", "4", "5", "6", "7", "8", "9"})

\* -? (0 | [1-9][0-9]*) (. [0-9]+)?
JsonNumberAt(s, i) ==
    With(IF At(s, i) = "-" THEN i + 1 ELSE i, LAMBDA a :
    With(IF At(s, a) = "0" THEN a + 1 ELSE DigitRunEnd(s, a), LAMBDA b :
    With(IF At(s, b) = "." THEN DigitRunEnd(s, b + 1) ELSE b, LAMBDA c :
        IF b = a \/ (At(s, b) = "." /\ c = b + 1) THEN Fail
        ELSE With(IF At(s, b) = "." THEN SubSeq(s, b + 1, c - 1) ELSE <<>>, LAMBDA fp :
             With(DigitsToNat(SubSeq(s, a, b - 1) \o fp, 0), LAMBDA mag :
                 Ok(Dec(IF a > i THEN -mag ELSE mag, Len(fp)), c))))))

JsonLiteralAt(s, i) ==
    IF Slice(s, i, i + 3) = <<"t", "r", "u", "e">> THEN Ok(Bool(TRUE), i + 4)
    ELSE IF Slice(s, i, i + 4) = <<"f", "a", "l", "s", "e">> THEN Ok(Bool(FALSE), i + 5)
    ELSE IF Slice(s, i, i + 3) = <<"n", "u", "l", "l">> THEN Ok(Null, i + 4)
    ELSE Fail

RECURSIVE JsonValue(_, _)
RECURSIVE JsonMembers(_, _, _)
RECURSIVE JsonElements(_, _, _)

JsonValue(s, i0) ==
    With(SkipJsonSpace(s, i0), LAMBDA i :
    With(SkipJsonSpace(s, i + 1), LAMBDA inner :
        IF At(s, i) = "{" THEN
            (IF At(s, inner) = "}" THEN Ok(Obj(<<>>), inner + 1)
             ELSE JsonMembers(s, i + 1, <<>>))
        ELSE IF At(s, i) = "[" THEN
            (IF At(s, inner) = "]" THEN Ok(Arr(<<>>), inner + 1)
             ELSE JsonElements(s, i + 1, <<>>))
        ELSE IF At(s, i) = "\"" THEN JsonStringBody(s, i + 1, <<>>)
        ELSE IF At(s, i) = "-" \/ IsDigit(At(s, i)) THEN JsonNumberAt(s, i)
        ELSE JsonLiteralAt(s, i)))

\* "key" : value, then either , and more members or the closing brace.  A
\* repeated key keeps its last value.
JsonMembers(s, i0, f) ==
    With(SkipJsonSpace(s, i0), LAMBDA i :
    With(IF At(s, i) = "\"" THEN JsonStringBody(s, i + 1, <<>>) ELSE Fail, LAMBDA key :
        IF ~key.ok THEN Fail
        ELSE With(SkipJsonSpace(s, key.i), LAMBDA colon :
             With(IF At(s, colon) = ":" THEN JsonValue(s, colon + 1) ELSE Fail, LAMBDA val :
                 IF ~val.ok THEN Fail
                 ELSE With(SkipJsonSpace(s, val.i), LAMBDA next :
                      With((key.v.s :> val.v) @@ f, LAMBDA g :
                          IF At(s, next) = "," THEN JsonMembers(s, next + 1, g)
                          ELSE IF At(s, next) = "}" THEN Ok(Obj(g), next + 1)
                          ELSE Fail))))))

JsonElements(s, i0, acc) ==
    With(JsonValue(s, i0), LAMBDA val :
        IF ~val.ok THEN Fail
        ELSE With(SkipJsonSpace(s, val.i), LAMBDA next :
             With(Append(acc, val.v), LAMBDA more :
                 IF At(s, next) = "," THEN JsonElements(s, next + 1, more)
                 ELSE IF At(s, next) = "]" THEN Ok(Arr(more), next + 1)
                 ELSE Fail)))

\* JSON.parse(text): [ok |-> TRUE, v |-> value], or ok = FALSE for SyntaxError.
JSONparse(s) ==
    With(JsonValue(s, 1), LAMBDA r :
        IF r.ok /\ SkipJsonSpace(s, r.i) = Len(s) + 1
        THEN [ok |-> TRUE, v |-> r.v]
        ELSE [ok |-> FALSE, v |-> Undefined])

-----------------------------------------------------------------------------
(* The Tolerant Parser: map.js buildJsonFromObjectStrings,                 *)
(* parseObjectsStringManually and parseDataString.  Each regular           *)
(* expression is modelled by the matches the engine finds, scanning left   *)
(* to right.                                                               *)

SkipSpace(s, i) == SkipRun(s, i, {" ", "\t", "\n", "\r"})

\* /}\s*,\s*{/ matched at i: the position after the match, 0 if no match.
ChunkSeparatorEnd(s, i) ==
    IF At(s, i) # "}" THEN 0
    ELSE With(SkipSpace(s, i + 1), LAMBDA a :
             IF At(s, a) # "," THEN 0
             ELSE With(SkipSpace(s, a + 1), LAMBDA b :
                      IF At(s, b) = "{" THEN b + 1 ELSE 0))

\* cleanedString.split(/}\s*,\s*{/)
RECURSIVE SplitChunks(_, _, _)
SplitChunks(s, start, acc) ==
    With({j \in start..Len(s) : ChunkSeparatorEnd(s, j) > 0}, LAMBDA seps :
        IF seps = {} THEN Append(acc, SubSeq(s, start, Len(s)))
        ELSE With(MinOf(seps), LAMBDA sep :
             With(Append(acc, SubSeq(s, start, sep - 1)), LAMBDA more :
                 SplitChunks(s, ChunkSeparatorEnd(s, sep), more))))

\* The first map callback: trim, and put back a lost { or }.
rewrapChunk(chunk) ==
    With(Trim(chunk), LAMBDA trimmed :
    With(IF StartsWith(trimmed, <<"{">>) THEN trimmed ELSE <<"{">> \o trimmed, LAMBDA opened :
        IF EndsWith(opened, <<"}">>) THEN opened ELSE opened \o <<"}">>))

EscapeQuotes(s) == ReplaceAllChar(s, "\"", <<"\\", "\"">>)

\* replace(/([{,]\s*)([^,{:]+?)(\s*:\s*)/g, ...): at a { or , the key is the
\* text up to the blanks before the next colon, provided no , { comes first.
\* When only blanks precede the colon the engine backtracks the prefix by
\* one blank, which becomes the key.
\* Whether the key pattern matches at position i.
KeyMatchAt(s, i) ==
    /\ s[i] \in {"{", ","}
    /\ With(SkipSpace(s, i + 1), LAMBDA w :
       With(RunEnd(s, w, {",", "{", ":"}), LAMBDA q :
           At(s, q) = ":" /\ (q > w \/ w > i + 1)))

\* The key of a match: its text, trimmed and escaped, in quotes.
safeKey(key) == <<"\"">> \o EscapeQuotes(Trim(key)) \o <<"\"">>

RECURSIVE quoteKeys(_, _, _)
quoteKeys(s, from, acc) ==
    With({j \in from..Len(s) : KeyMatchAt(s, j)}, LAMBDA starts :
        IF starts = {} THEN acc \o SubSeq(s, from, Len(s))
        ELSE With(SkipSpace(s, MinOf(starts) + 1), LAMBDA w :
             With(RunEnd(s, w, {",", "{", ":"}), LAMBDA q :
             With(SkipSpace(s, q + 1), LAMBDA sepEnd :
                 IF q > w
                 THEN With(MaxOf({j \in w..(q - 1) : ~IsSpace(s[j])}), LAMBDA keyEnd :
                      With(acc \o SubSeq(s, from, w - 1)
                               \o safeKey(SubSeq(s, w, keyEnd))
                               \o SubSeq(s, keyEnd + 1, sepEnd - 1), LAMBDA more :
                          quoteKeys(s, sepEnd, more)))
                 ELSE With(acc \o SubSeq(s, from, w - 2)
                               \o safeKey(SubSeq(s, w - 1, w - 1))
                               \o SubSeq(s, w, sepEnd - 1), LAMBDA more :
                          quoteKeys(s, sepEnd, more))))))

\* /^-?\d+(?:[.,]\d+)?$/
IsNumericText(t) ==
    With(IF t # <<>> /\ Head(t) = "-" THEN Tail(t) ELSE t, LAMBDA u :
    With({i \in 1..Len(u) : u[i] \in {".", ","}}, LAMBDA seps :
        IF seps = {} THEN u # <<>> /\ AllDigits(u)
        ELSE /\ Cardinality(seps) = 1
             /\ MinOf(seps) > 1 /\ MinOf(seps) < Len(u)
             /\ AllDigits(SubSeq(u, 1, MinOf(seps) - 1))
             /\ AllDigits(SubSeq(u, MinOf(seps) + 1, Len(u)))))

\* The replacement callback of the value pass.
quotedValue(value) ==
    With(Trim(value), LAMBDA trimmedValue :
        IF IsNumericText(trimmedValue)
        THEN <<":", " ">> \o ReplaceFirstChar(trimmedValue, ",", <<".">>)
        ELSE <<":", " ", "\"">> \o EscapeQuotes(trimmedValue) \o <<"\"">>)

\* replace(/:\s*([^,"}{\[\]]+)(?=\s*[},])/g, ...): after a colon the value is
\* the longest run free of , " } { [ ] and it must be followed by } or ,
ValueRunEnd(s, i) == RunEnd(s, i + 1, {",", "\"", "}", "{", "[", "]"})

ValueMatchAt(s, i) ==
    /\ s[i] = ":"
    /\ With(ValueRunEnd(s, i), LAMBDA r : r > i + 1 /\ At(s, r) \in {"}", ","})

RECURSIVE quoteValues(_, _, _)
quoteValues(s, from, acc) ==
    With({j \in from..Len(s) : ValueMatchAt(s, j)}, LAMBDA starts :
        IF starts = {} THEN acc \o SubSeq(s, from, Len(s))
        ELSE With(MinOf(starts), LAMBDA i :
             With(ValueRunEnd(s, i), LAMBDA r :
             With(SubSeq(s, i + 1, r - 1), LAMBDA value :
             With(acc \o SubSeq(s, from, i - 1) \o quotedValue(value), LAMBDA more :
                 quoteValues(s, r, more))))))

\* The second map callback.
jsonReadyObject(chunk) ==
    With(ReplaceAllChar(chunk, "\\", <<"\\", "\\">>), LAMBDA escapedBackslashes :
    With(quoteKeys(escapedBackslashes, 1, <<>>), LAMBDA quotedKeys :
        quoteValues(quotedKeys, 1, <<>>)))

RECURSIVE JoinWith(_, _)
JoinWith(parts, sep) ==
    IF parts = <<>> THEN <<>>
    ELSE IF Len(parts) = 1 THEN parts[1]
    ELSE parts[1] \o sep \o JoinWith(Tail(parts), sep)

StripLeadingBracket(s) == IF s # <<>> /\ Head(s) = "[" THEN Tail(s) ELSE s
StripTrailingBracket(s) ==
    IF s # <<>> /\ s[Len(s)] = "]" THEN SubSeq(s, 1, Len(s) - 1) ELSE s

buildJsonFromObjectStrings(rawString) ==
    With(Trim(rawString), LAMBDA trimmed :
    With(StripLeadingBracket(trimmed), LAMBDA opened :
    With(StripTrailingBracket(opened), LAMBDA cleanedString :
        IF cleanedString = <<>> THEN <<"[", "]">>
        ELSE With(SplitChunks(cleanedString, 1, <<>>), LAMBDA chunks :
             With([k \in 1..Len(chunks) |->
                      With(rewrapChunk(chunks[k]), LAMBDA normalized :
                          jsonReadyObject(normalized))], LAMBDA jsonReadyObjects :
                 <<"[">> \o JoinWith(jsonReadyObjects, <<",">>) \o <<"]">>)))))

\* A call that may throw returns [ok, v, err, path]: v is the value returned,
\* err the error thrown, path the parse that produced the outcome.
NoError == [kind |-> "none", index |-> 0, field |-> <<>>]
Thrown(kind, index, field, path) ==
    [ok |-> FALSE, v |-> Undefined,
     err |-> [kind |-> kind, index |-> index, field |-> field], path |-> path]
Returned(v, path) == [ok |-> TRUE, v |-> v, err |-> NoError, path |-> path]

parseObjectsStringManually(dataString) ==
    With(buildJsonFromObjectStrings(dataString), LAMBDA jsonString :
    With(JSONparse(jsonString), LAMBDA parsed :
        IF ~parsed.ok THEN Thrown("SyntaxError", 0, <<>>, "repair")
        ELSE IF parsed.v.t # "arr" THEN Thrown("ExpectedArray", 0, <<>>, "repair")
        ELSE Returned(parsed.v, "repair")))

parseDataString_RepairAlways(dataString) ==
    IF ~Truthy(dataString) \/ dataString.t # "str" THEN Returned(Null, "none")
    ELSE With(Trim(dataString.s), LAMBDA trimmedString :
             IF trimmedString = <<>> THEN Returned(Null, "none")
             ELSE parseObjectsStringManually(trimmedString))

parseDataString(dataString) ==
    IF ~Truthy(dataString) \/ dataString.t # "str" THEN Returned(Null, "none")
    ELSE With(Trim(dataString.s), LAMBDA trimmedString :
             IF trimmedString = <<>> THEN Returned(Null, "none")
             ELSE With(JSONparse(trimmedString), LAMBDA parsed :
                      IF parsed.ok /\ parsed.v.t = "arr" THEN Returned(parsed.v, "strict")
                      ELSE parseObjectsStringManually(trimmedString)))

-----------------------------------------------------------------------------
(* The Schema Validator: map.js interactiveAreaSchema,                     *)
(* validateInteractiveAreasData and parseInteractiveAreasString.           *)

RequiredFields == <<K_name, K_x, K_y, K_width, K_height, K_matchField>>
NumericFields == <<K_x, K_y, K_width, K_height>>
\* propertyTypes, in declaration order; "str" and "num" are the tags of the
\* values whose typeof is 'string' and 'number'.
PropertyTypes ==
    << <<K_name, "str">>, <<K_x, "num">>, <<K_y, "num">>, <<K_width, "num">>,
       <<K_height, "num">>, <<K_matchField, "str">>, <<K_matchValue, "str">> >>

\* area[field] = Number(String(area[field]).replace(',', '.')) for the
\* numeric fields that are present.
coerceNumericFields(area) ==
    IF area.t # "obj" THEN area
    ELSE Obj([key \in DOMAIN area.f |->
                IF (\E n \in 1..Len(NumericFields) : NumericFields[n] = key)
                   /\ area.f[key] # Undefined
                THEN With(ReplaceFirstChar(JsString(area.f[key]), ",", <<".">>),
                          LAMBDA text : StringToNumber(text))
                ELSE area.f[key]])

FirstMissing(area) ==
    With({n \in 1..Len(RequiredFields) : Get(area, RequiredFields[n]) = Undefined},
         LAMBDA missing : IF missing = {} THEN 0 ELSE MinOf(missing))

FirstMistyped(area) ==
    With({n \in 1..Len(PropertyTypes) :
            /\ Get(area, PropertyTypes[n][1]) # Undefined
            /\ Get(area, PropertyTypes[n][1]).t # PropertyTypes[n][2]},
         LAMBDA wrong : IF wrong = {} THEN 0 ELSE MinOf(wrong))

\* The forEach of validateInteractiveAreasData from area number index on;
\* done holds the areas already validated (and coerced).
RECURSIVE validateAreasFrom(_, _, _)
validateAreasFrom(data, index, done) ==
    IF index > Len(data) THEN Returned(Arr(done), "validated")
    ELSE With(data[index], LAMBDA area :
         With(FirstMissing(area), LAMBDA missing :
             IF area.t \in {"null", "undefined"}
             THEN Thrown("TypeError", index, <<>>, "validated")
             ELSE IF missing # 0
             THEN Thrown("MissingField", index, RequiredFields[missing], "validated")
             ELSE With(coerceNumericFields(area), LAMBDA coerced :
                  With(FirstMistyped(coerced), LAMBDA mistyped :
                      IF mistyped # 0
                      THEN Thrown("WrongType", index, PropertyTypes[mistyped][1],
                                  "validated")
                      ELSE With(Append(done, coerced), LAMBDA more :
                               validateAreasFrom(data, index + 1, more))))))

validateInteractiveAreasData(data) ==
    IF data.t # "arr" THEN Thrown("AreasNotArray", 0, <<>>, "validated")
    ELSE With(data.a, LAMBDA areas : validateAreasFrom(areas, 1, <<>>))

WithPath(r, path) == [r EXCEPT !.path = path]

\* The catch block: the repair pass on the same text, then validation again.
parseAreasManually(trimmed) ==
    With(parseObjectsStringManually(trimmed), LAMBDA parsed :
        IF ~parsed.ok THEN parsed
        ELSE With(validateInteractiveAreasData(parsed.v), LAMBDA validated :
                 WithPath(validated, "repair")))

parseInteractiveAreasString(rawString) ==
    IF ~Truthy(rawString) \/ rawString.t # "str" THEN Returned(Arr(<<>>), "none")
    ELSE With(Trim(rawString.s), LAMBDA trimmed :
             IF trimmed = <<>> THEN Returned(Arr(<<>>), "none")
             ELSE With(JSONparse(trimmed), LAMBDA parsed :
                  With(validateInteractiveAreasData(parsed.v), LAMBDA validated :
                      IF parsed.ok /\ validated.ok THEN WithPath(validated, "strict")
                      ELSE parseAreasManually(trimmed))))

-----------------------------------------------------------------------------
(* Region bounds validation: map.js validateAreaBounds.                    *)

NotANumber(field) == <<"must be a number", field>>
NotPositive(field) == <<"must be greater than 0", field>>
Negative(field) == <<"must not be negative", field>>
RightOverflow == <<"beyond the right edge", <<>> >>
BottomOverflow == <<"beyond the bottom edge", <<>> >>
BadConfig == <<"config missing or malformed", <<>> >>

\* The body of the forEach over x, y, width, height: what it pushes for one
\* field whose Number(...) is value.
fieldErrors_ZeroSizeAccepted(field, value) ==
    IF ~IsFinite(value) THEN <<NotANumber(field)>>
    ELSE (IF field \in {K_width, K_height} /\ NumLtZero(value)
          THEN <<NotPositive(field)>> ELSE <<>>)
         \o (IF field \in {K_x, K_y} /\ NumLtZero(value)
             THEN <<Negative(field)>> ELSE <<>>)

fieldErrors(field, value) ==
    IF ~IsFinite(value) THEN <<NotANumber(field)>>
    ELSE (IF field \in {K_width, K_height} /\ NumLeqZero(value)
          THEN <<NotPositive(field)>> ELSE <<>>)
         \o (IF field \in {K_x, K_y} /\ NumLtZero(value)
             THEN <<Negative(field)>> ELSE <<>>)

\* The two checks after the loop, each guarded by Number.isFinite.
edgeErrors(nx, ny, nw, nh, naturalWidth, naturalHeight) ==
    (IF IsFinite(nx) /\ IsFinite(nw) /\ NumGt(NumAdd(nx, nw), Num(naturalWidth))
     THEN <<RightOverflow>> ELSE <<>>)
    \o (IF IsFinite(ny) /\ IsFinite(nh) /\ NumGt(NumAdd(ny, nh), Num(naturalHeight))
        THEN <<BottomOverflow>> ELSE <<>>)

validateAreaBounds(areaConfig, naturalWidth, naturalHeight) ==
    IF ~Truthy(areaConfig) \/ areaConfig.t \notin {"obj", "arr"}
    THEN [isValid |-> FALSE, errors |-> <<BadConfig>>]
    ELSE LET nx == ToNumber(Get(areaConfig, K_x))
             ny == ToNumber(Get(areaConfig, K_y))
             nw == ToNumber(Get(areaConfig, K_width))
             nh == ToNumber(Get(areaConfig, K_height))
             errors == fieldErrors(K_x, nx) \o fieldErrors(K_y, ny)
                       \o fieldErrors(K_width, nw) \o fieldErrors(K_height, nh)
                       \o edgeErrors(nx, ny, nw, nh, naturalWidth, naturalHeight)
         IN  [isValid |-> errors = <<>>, errors |-> errors]

-----------------------------------------------------------------------------
(* The page: map.js from bootstrap on.  The handlers are operators on the  *)
(* record st of the page's state, so that bootstrap, which runs three of   *)
(* them in one task, is one action.  The page's markup is taken to hold    *)
(* every element bootstrap looks up.  Pointer moves only reposition the    *)
(* popup and are left out.                                                 *)

POPUP_DELAY == 200
STATUS_HIDE_DELAY == 2000

\* History counters stop counting here.
MaxCount == 3
\* The pointer enters regions at most this many times.
MaxEnters == 2

Bump(n) == IF n < MaxCount THEN n + 1 ELSE n

Cur ==
    [parsedData |-> parsedData, interactiveAreas |-> interactiveAreas,
     mapReady |-> mapReady, areasReady |-> areasReady,
     mapLoadFallbackTried |-> mapLoadFallbackTried, popupTimer |-> popupTimer,
     image |-> image, mapErrorVisible |-> mapErrorVisible,
     loadingVisible |-> loadingVisible, status |-> status, overlays |-> overlays,
     popup |-> popup, timers |-> timers, nextTimerId |-> nextTimerId,
     fetchState |-> fetchState, srcSets |-> srcSets, loadFailures |-> loadFailures,
     parseFailed |-> parseFailed, lastPointer |-> lastPointer, enters |-> enters]

Commit(st) ==
    /\ parsedData' = st.parsedData
    /\ interactiveAreas' = st.interactiveAreas
    /\ mapReady' = st.mapReady
    /\ areasReady' = st.areasReady
    /\ mapLoadFallbackTried' = st.mapLoadFallbackTried
    /\ popupTimer' = st.popupTimer
    /\ image' = st.image
    /\ mapErrorVisible' = st.mapErrorVisible
    /\ loadingVisible' = st.loadingVisible
    /\ status' = st.status
    /\ overlays' = st.overlays
    /\ popup' = st.popup
    /\ timers' = st.timers
    /\ nextTimerId' = st.nextTimerId
    /\ fetchState' = st.fetchState
    /\ srcSets' = st.srcSets
    /\ loadFailures' = st.loadFailures
    /\ parseFailed' = st.parseFailed
    /\ lastPointer' = st.lastPointer
    /\ enters' = st.enters

\* A handler's outcome, computed once from the current state, becomes the
\* next state.
Step(outcome) == \E st \in {outcome} : Commit(st)

\* setTimeout(fn, delay): a new active timer; its id is st.nextTimerId.
setTimeout(st, fn, arg, delay) ==
    [st EXCEPT !.timers = @ \cup {[id |-> st.nextTimerId, fn |-> fn, arg |-> arg,
                                   delay |-> delay]},
               !.nextTimerId = @ + 1]

\* clearTimeout(id): no effect when id names no active timer.
clearTimeout(st, id) ==
    [st EXCEPT !.timers = {t \in @ : t.id # id}]

normalizePath(path) == ReplaceAllChar(path, "\\", <<"/">>)

IsLetter(c) == LowerChar(c) # c \/ c \in {"a", "b", "c", "d", "e", "f", "g", "h", "i", "j",
    "k", "l", "m", "n", "o", "p", "q", "r", "s", "t", "u", "v", "w", "x", "y", "z"}

\* /^[A-Za-z]:/
HasDriveLetter(path) == Len(path) >= 2 /\ IsLetter(path[1]) /\ path[2] = ":"

HttpScheme == <<"h", "t", "t", "p", ":", "/", "/">>
HttpsScheme == <<"h", "t", "t", "p", "s", ":", "/", "/">>
FileScheme == <<"f", "i", "l", "e", ":", "/", "/">>

convertToFileUrl(path) ==
    IF StartsWith(path, HttpScheme) \/ StartsWith(path, HttpsScheme)
       \/ StartsWith(path, FileScheme)
    THEN path
    ELSE IF HasDriveLetter(path) THEN FileScheme \o <<"/">> \o normalizePath(path)
    ELSE normalizePath(path)

\* The path loadMapImage and loadInteractiveAreas hand to the browser.
resourceUrl(path, protocol) ==
    IF HasDriveLetter(path) /\ protocol = "file:" THEN convertToFileUrl(path)
    ELSE normalizePath(path)

fallbackRelativePath == <<"y", "a", "r", "d", "_", "m", "a", "p", ".", "j", "p", "g">>

\* The ?? of the three constants read from the window.
externalData ==
    IF host.externalData \in {Undefined, Null} THEN Null ELSE host.externalData

interactiveAreasData ==
    IF host.interactiveAreasData \in {Undefined, Null} THEN Null
    ELSE host.interactiveAreasData

mapImagePath ==
    IF host.mapImagePath \in {Undefined, Null} THEN Str(fallbackRelativePath)
    ELSE host.mapImagePath

\* What reading mapImage.src returns: the attribute resolved against the
\* document's address, always an absolute URL.
DocumentBase ==
    IF host.protocol = "file:" THEN FileScheme \o <<"/", "a", "p", "p", "/">>
    ELSE HttpScheme \o <<"h", "o", "s", "t", "/">>

HasScheme(url) ==
    \E i \in 2..Len(url) :
        url[i] = ":" /\ \A j \in 1..(i - 1) : IsLetter(url[j])

imageSrcProperty(st) ==
    IF HasScheme(st.image.src) THEN st.image.src ELSE DocumentBase \o st.image.src

\* mapImage.src = value: the browser starts loading it.
setImageSrc(st, value) ==
    [st EXCEPT !.image.src = value, !.image.pending = TRUE, !.srcSets = Bump(@)]

IsRenderable_Unchecked(areaConfig, naturalWidth, naturalHeight) == TRUE

IsRenderable(areaConfig, naturalWidth, naturalHeight) ==
    validateAreaBounds(areaConfig, naturalWidth, naturalHeight).isValid

renderInteractiveAreas(st) ==
    IF ~st.mapReady \/ ~st.areasReady THEN st
    ELSE IF st.image.client[1] = 0 \/ st.image.client[2] = 0
            \/ st.image.natural[1] = 0 \/ st.image.natural[2] = 0 THEN st
    ELSE IF st.interactiveAreas = <<>> THEN [st EXCEPT !.overlays = <<>>]
    ELSE LET Valid(areaConfig) ==
                 IsRenderable(areaConfig, st.image.natural[1], st.image.natural[2])
         IN  [st EXCEPT !.overlays = SelectSeq(st.interactiveAreas, Valid)]

showMapError(st) == [st EXCEPT !.mapErrorVisible = TRUE]
hideMapError(st) == [st EXCEPT !.mapErrorVisible = FALSE]
setLoadingIndicator(st, isVisible) == [st EXCEPT !.loadingVisible = isVisible]

setDataStatus(st, message, loading, error) ==
    With([st EXCEPT !.status = [display |-> TRUE, message |-> message,
                                spinner |-> loading, error |-> error]], LAMBDA shown :
        IF ~loading /\ ~error
        THEN setTimeout(shown, "hideStatus", Null, STATUS_HIDE_DELAY)
        ELSE shown)

\* loadMapImage; cached is what the browser has at once for the new src:
\* [complete |-> FALSE], or the decoded image.
loadMapImage(st, cached) ==
    IF ~Truthy(mapImagePath) THEN st
    ELSE With(resourceUrl(mapImagePath.s, host.protocol), LAMBDA imageSrc :
         With(setImageSrc(setLoadingIndicator(hideMapError(st), TRUE), imageSrc),
              LAMBDA started :
             IF cached.complete /\ cached.natural[1] # 0
             THEN With(setLoadingIndicator(
                           [started EXCEPT !.image.pending = FALSE,
                                           !.image.natural = cached.natural,
                                           !.image.client = cached.client,
                                           !.mapReady = TRUE], FALSE), LAMBDA ready :
                      renderInteractiveAreas(ready))
             ELSE [started EXCEPT !.image.listeners = TRUE]))

\* The image's load listener.
onImageLoad_NoRender(st) ==
    hideMapError(setLoadingIndicator([st EXCEPT !.mapReady = TRUE], FALSE))

onImageLoad(st) ==
    With(hideMapError(setLoadingIndicator([st EXCEPT !.mapReady = TRUE], FALSE)),
         LAMBDA ready : renderInteractiveAreas(ready))

\* The image's error listener.
onImageError_FlagNotSet(st) ==
    IF ~st.mapLoadFallbackTried /\ Truthy(mapImagePath)
       /\ imageSrcProperty(st) # fallbackRelativePath
    THEN setImageSrc(st, fallbackRelativePath)
    ELSE showMapError(setLoadingIndicator(st, FALSE))

onImageError(st) ==
    IF ~st.mapLoadFallbackTried /\ Truthy(mapImagePath)
       /\ imageSrcProperty(st) # fallbackRelativePath
    THEN setImageSrc([st EXCEPT !.mapLoadFallbackTried = TRUE], fallbackRelativePath)
    ELSE showMapError(setLoadingIndicator(st, FALSE))

\* What loadInteractiveAreas does with the parsed regions, inline or fetched.
acceptAreas_EmptyAccepted(st, parsedAreas, emptyMessage) ==
    IF parsedAreas.t = "arr"
    THEN With([st EXCEPT !.interactiveAreas = parsedAreas.a, !.areasReady = TRUE], LAMBDA ready :
         With(renderInteractiveAreas(ready), LAMBDA rendered :
             setDataStatus(rendered, "areas loaded", FALSE, FALSE)))
    ELSE setDataStatus(st, emptyMessage, FALSE, TRUE)

acceptAreas(st, parsedAreas, emptyMessage) ==
    IF parsedAreas.t = "arr" /\ Len(parsedAreas.a) > 0
    THEN With([st EXCEPT !.interactiveAreas = parsedAreas.a, !.areasReady = TRUE],
              LAMBDA ready :
         With(renderInteractiveAreas(ready), LAMBDA rendered :
             setDataStatus(rendered, "areas loaded", FALSE, FALSE)))
    ELSE setDataStatus(st, emptyMessage, FALSE, TRUE)

LooksLikeInlineData(trimmedAreas) ==
    StartsWith(trimmedAreas, <<"{">>) \/ StartsWith(trimmedAreas, <<"[">>)

\* No response yet; fetchState keeps the response the fetch settled with,
\* and whether the image was ready when it settled.
NoResponse == [kind |-> "none", text |-> Undefined]

\* loadInteractiveAreas up to its return or its first await.
loadInteractiveAreas(st) ==
    IF ~Truthy(interactiveAreasData) THEN st
    ELSE With(Trim(JsString(interactiveAreasData)), LAMBDA trimmedAreas :
         With(setDataStatus(st, "loading areas", TRUE, FALSE), LAMBDA loading :
             IF ~LooksLikeInlineData(trimmedAreas)
             THEN [loading EXCEPT !.fetchState =
                      [state |-> "pending",
                       url |-> resourceUrl(JsString(interactiveAreasData), host.protocol),
                       response |-> NoResponse, imageReadyBefore |-> FALSE]]
             ELSE With(parseInteractiveAreasString(Str(trimmedAreas)), LAMBDA parsed :
                      IF parsed.ok THEN acceptAreas(loading, parsed.v, "areas not found")
                      ELSE setDataStatus([loading EXCEPT !.parseFailed = TRUE],
                                         "areas not parsed", FALSE, TRUE))))

\* loadInteractiveAreas after the fetch has settled with response.
resumeLoadInteractiveAreas(st, response) ==
    With([st EXCEPT !.fetchState.state = "settled",
                    !.fetchState.response = response,
                    !.fetchState.imageReadyBefore = st.mapReady], LAMBDA settled :
        IF response.kind # "body"
        THEN setDataStatus(settled, "areas not loaded", FALSE, TRUE)
        ELSE With(parseInteractiveAreasString(response.text), LAMBDA parsed :
                 IF parsed.ok THEN acceptAreas(settled, parsed.v, "areas not found")
                 ELSE setDataStatus([settled EXCEPT !.parseFailed = TRUE],
                                    "areas not loaded", FALSE, TRUE)))

initializeDataParsing(st) ==
    IF ~Truthy(externalData) THEN st
    ELSE With(setDataStatus(st, "loading data", TRUE, FALSE), LAMBDA loading :
             IF externalData.t = "str" THEN
                 With(parseDataString(externalData), LAMBDA parsed :
                     IF parsed.ok
                     THEN setDataStatus([loading EXCEPT !.parsedData = parsed.v],
                                        "data loaded", FALSE, FALSE)
                     ELSE setDataStatus([loading EXCEPT !.parseFailed = TRUE],
                                        "data not parsed", FALSE, TRUE))
             ELSE IF externalData.t = "arr"
             THEN setDataStatus([loading EXCEPT !.parsedData = externalData],
                                "data loaded", FALSE, FALSE)
             ELSE loading)

bootstrap(st, cached) ==
    With(loadMapImage(st, cached), LAMBDA imageStarted :
    With(loadInteractiveAreas(imageStarted), LAMBDA areasStarted :
        initializeDataParsing(areasStarted)))

\* The mouseenter listener of a region.
onMouseEnter(st, areaConfig) ==
    With(clearTimeout(st, st.popupTimer), LAMBDA cleared :
    With([cleared EXCEPT !.popupTimer = cleared.nextTimerId], LAMBDA armed :
        setTimeout(armed, "showPopup", areaConfig, POPUP_DELAY)))

closePopup(st) == [st EXCEPT !.popup.visible = FALSE]

\* The mouseleave listener of a region.
onMouseLeave_TimerKept(st) == closePopup(st)

onMouseLeave(st) == closePopup(clearTimeout(st, st.popupTimer))

\* showPopup: the header, the number of records listed (-1 for the 'no data'
\* text, 0 for 'no matches'), and the popup made visible.
showPopup(st, areaConfig) ==
    [st EXCEPT !.popup =
        [visible |-> TRUE,
         header |-> Get(areaConfig, K_name),
         listed |-> IF ~Truthy(st.parsedData) \/ st.parsedData.t # "arr" THEN -1
                    ELSE Len(popupFilteredData(areaConfig, st.parsedData))]]

\* A timer's callback.
runTimer(st, t) ==
    IF t.fn = "showPopup" THEN showPopup(st, t.arg)
    ELSE [st EXCEPT !.status.display = FALSE]

\* The page before DOMContentLoaded, embedded by a host h.
BeforeBootstrap(h) ==
    /\ host = h
    /\ pc = "loading"
    /\ parsedData = Null
    /\ interactiveAreas = <<>>
    /\ mapReady = FALSE
    /\ areasReady = FALSE
    /\ mapLoadFallbackTried = FALSE
    /\ popupTimer = 0
    /\ image = [src |-> <<>>, pending |-> FALSE, listeners |-> FALSE,
                natural |-> <<0, 0>>, client |-> <<0, 0>>]
    /\ mapErrorVisible = FALSE
    /\ loadingVisible = FALSE
    /\ status = [display |-> FALSE, message |-> "", spinner |-> FALSE, error |-> FALSE]
    /\ overlays = <<>>
    /\ popup = [visible |-> FALSE, header |-> Undefined, listed |-> -1]
    /\ timers = {}
    /\ nextTimerId = 1
    /\ fetchState = [state |-> "none", url |-> <<>>, response |-> NoResponse,
                     imageReadyBefore |-> FALSE]
    /\ srcSets = 0
    /\ loadFailures = 0
    /\ parseFailed = FALSE
    /\ lastPointer = "none"
    /\ enters = 0

\* A host that sets none of the globals.
BareHost ==
    [mapImagePath |-> Undefined, interactiveAreasData |-> Undefined,
     externalData |-> Undefined, protocol |-> "http:"]

-----------------------------------------------------------------------------
(* Calls of the Matcher and of the checker's loop on bounded inputs.       *)

MaxTextLen == 2
MaxRecords == 2

Sigma == {"A", "a", " ", "\t"}
Texts == UNION {[1..k -> Sigma] : k \in 0..MaxTextLen}

K_f == <<"f">>
K_g == <<"g">>

Rec(v) == IF v = Undefined THEN Obj(<<>>) ELSE Obj(K_f :> v)

FieldValues ==
    {Undefined, Null, Num(0), Num(7), Bool(FALSE), NaN, Str(<<>>), Str(<<" ">>),
     Str(<<"a", " ", "b">>), Str(<<"A", "\t", " ", "b">>), Str(<<"b">>), Str(<<"7">>)}

TargetValues ==
    {Undefined, Null, Num(7), Str(<<>>), Str(<<"b">>), Str(<<" ", "A", " ", " ", "B", " ">>),
     Str(<<"a", " ", "b", " ", "a">>)}

\* The values of the records of a longer array.
RowValues == {Undefined, Str(<<>>), Str(<<"b">>), Str(<<"a", " ", "b">>), Num(7)}

RecordArrays ==
    {<<>>} \cup {<<Rec(v)>> : v \in FieldValues}
    \cup UNION {[1..n -> {Rec(v) : v \in RowValues}] : n \in 2..MaxRecords}

FilterCalls ==
    {[fn |-> "filterDataByObject", dataArray |-> Arr(<<Rec(Str(s))>>),
      matchField |-> K_f, matchValue |-> Str(t)] : s \in Texts, t \in Texts}
    \cup
    {[fn |-> "filterDataByObject", dataArray |-> Arr(d), matchField |-> k, matchValue |-> v] :
        d \in RecordArrays, k \in {K_f, K_g}, v \in TargetValues}
    \cup
    {[fn |-> "filterDataByObject", dataArray |-> d, matchField |-> K_f,
      matchValue |-> Str(<<"b">>)] : d \in {Null, Undefined, Obj(K_f :> Str(<<"b">>))}}

Region(name, field, value) ==
    Obj((K_name :> Str(name)) @@ (K_matchField :> Str(field))
        @@ (IF value = Undefined THEN <<>> ELSE K_matchValue :> value))

RegionNames == {<<>>, <<"A">>, <<"D", "o", "c", "k", " ", "A">>}
RegionMatchValues == {Undefined, Str(<<>>), Str(<<" ">>), Str(<<"A">>), Str(<<"Z">>)}
DataValues == {Undefined, Str(<<>>), Str(<<"A">>), Str(<<"a", "1">>), Str(<<"B">>)}
DataArrays == UNION {[1..n -> {Rec(v) : v \in DataValues}] : n \in 1..MaxRecords}

RegionCalls ==
    {[fn |-> "region", area |-> Region(n, f, v), data |-> d] :
        n \in RegionNames, f \in {K_f, <<>>}, v \in RegionMatchValues, d \in DataArrays}

NotCalled == [done |-> FALSE]

InitMatch ==
    /\ BeforeBootstrap(BareHost)
    /\ call \in FilterCalls \cup RegionCalls
    /\ out = NotCalled

CallFilter ==
    /\ call.fn = "filterDataByObject"
    /\ ~out.done
    /\ out' = [done |-> TRUE,
               result |-> filterDataByObject(call.dataArray, call.matchField, call.matchValue)]
    /\ UNCHANGED <<call, pageVars>>

\* One region against one dataset: what the popup would list, and what the
\* checker would warn.
CallRegion ==
    /\ call.fn = "region"
    /\ ~out.done
    /\ out' = [done |-> TRUE,
               popup |-> popupFilteredData(call.area, Arr(call.data)),
               warning |-> areaWarning(call.area, call.data)]
    /\ UNCHANGED <<call, pageVars>>

NextMatch == CallFilter \/ CallRegion

SpecMatch == InitMatch /\ [][NextMatch]_vars

-----------------------------------------------------------------------------
(* Claims about the Matcher.                                               *)

\* The claim's own reading of the normal form: the words of the text (its
\* maximal runs of non-blank characters), lowercased, joined by one space.
RECURSIVE WordsOf(_, _, _)
WordsOf(s, word, acc) ==
    IF s = <<>> THEN (IF word = <<>> THEN acc ELSE Append(acc, word))
    ELSE IF IsSpace(Head(s))
         THEN WordsOf(Tail(s), <<>>, IF word = <<>> THEN acc ELSE Append(acc, word))
         ELSE WordsOf(Tail(s), Append(word, LowerChar(Head(s))), acc)

RECURSIVE JoinWords(_)
JoinWords(ws) ==
    IF ws = <<>> THEN <<>>
    ELSE IF Len(ws) = 1 THEN ws[1]
    ELSE ws[1] \o <<" ">> \o JoinWords(Tail(ws))

NormalForm(v) ==
    IF v \in {Undefined, Null} THEN <<>> ELSE JoinWords(WordsOf(JsString(v), <<>>, <<>>))

IsInfix(part, whole) ==
    \E i \in 0..Len(whole) : \E j \in i..Len(whole) : SubSeq(whole, i + 1, j) = part

Falsy(v) == v \in {Undefined, Null, Str(<<>>), Num(0), NaN, Bool(FALSE)}

ShouldMatch(item, field, target) ==
    LET v == IF field \in DOMAIN item.f THEN item.f[field] ELSE Undefined
    IN  /\ ~Falsy(v)
        /\ \/ NormalForm(v) = NormalForm(target)
           \/ IsInfix(NormalForm(target), NormalForm(v))
           \/ IsInfix(NormalForm(v), NormalForm(target))

\* C5: filterDataByObject returns exactly the records whose field value is
\* not falsy and whose normal form equals, contains or is contained in the
\* normal form of the target, in input order.
C5_FilterExact ==
    (out.done /\ call.fn = "filterDataByObject" /\ call.dataArray.t = "arr") =>
        LET Keep(item) == ShouldMatch(item, call.matchField, call.matchValue)
        IN  out.result = SelectSeq(call.dataArray.a, Keep)

\* A record kept only because the target contains its value, after a record
\* that is dropped.
C5_Witness ==
    /\ out.done /\ call.fn = "filterDataByObject" /\ call.dataArray.t = "arr"
    /\ Len(call.dataArray.a) = 2
    /\ out.result = <<call.dataArray.a[2]>>
    /\ call.dataArray.a[2] = Rec(Str(<<"b">>))
    /\ call.matchValue = Str(<<" ", "A", " ", " ", "B", " ">>)

\* C6: a region whose matchValue is empty or absent does not get every record
\* that has a non-empty match field, and the checker warns about it.
C6_EmptyMatchValueInvalid ==
    (/\ out.done /\ call.fn = "region"
     /\ Get(call.area, K_matchValue) \in {Undefined, Str(<<>>)}
     /\ Get(call.area, K_matchField) = Str(K_f)
     /\ \E i \in 1..Len(call.data) : Truthy(Get(call.data[i], K_f)))
    => /\ out.popup # SelectSeq(call.data, LAMBDA item : Truthy(Get(item, K_f)))
       /\ out.warning # "none"

\* C14: for every region and dataset the checker warns about the region
\* exactly when the Matcher, called as showPopup calls it, returns no record.
C14_CheckerAgreesWithMatcher ==
    (out.done /\ call.fn = "region") => (out.warning # "none" <=> out.popup = <<>>)

-----------------------------------------------------------------------------
(* Calls of validateAreaBounds.                                            *)

CoordValues ==
    {NaN, Infinity, NegInfinity, Num(-1), Num(0), Num(10), Num(100), Dec(55, 1),
     Str(<<"1", "0">>), Null}

ImageSizes == {<<90, 200>>, <<110, 110>>, <<200, 90>>}

Box(x, y, w, h) ==
    Obj((K_x :> x) @@ (K_y :> y) @@ (K_width :> w) @@ (K_height :> h))

BoundsCalls ==
    {[fn |-> "validateAreaBounds", areaConfig |-> Box(x, y, w, h),
      naturalWidth |-> sz[1], naturalHeight |-> sz[2]] :
        x \in CoordValues, y \in {Num(10), Num(-1), NaN, Dec(55, 1)},
        w \in CoordValues, h \in {Num(100), Num(0), NegInfinity},
        sz \in ImageSizes}
    \cup
    {[fn |-> "validateAreaBounds", areaConfig |-> Box(Num(0), y, Num(10), h),
      naturalWidth |-> 90, naturalHeight |-> 200] :
        y \in CoordValues, h \in CoordValues}
    \cup
    {[fn |-> "validateAreaBounds", areaConfig |-> c,
      naturalWidth |-> 90, naturalHeight |-> 200] :
        c \in {Null, Undefined, Str(<<"x">>), Obj(<<>>)}}

InitBounds ==
    /\ BeforeBootstrap(BareHost)
    /\ call \in BoundsCalls
    /\ out = NotCalled

CallValidateAreaBounds ==
    /\ call.fn = "validateAreaBounds"
    /\ ~out.done
    /\ out' = [done |-> TRUE,
               result |-> validateAreaBounds(call.areaConfig, call.naturalWidth,
                                             call.naturalHeight)]
    /\ UNCHANGED <<call, pageVars>>

NextBounds == CallValidateAreaBounds

SpecBounds == InitBounds /\ [][NextBounds]_vars

-----------------------------------------------------------------------------
(* Claims about validateAreaBounds.                                        *)

Count(errors, e) == Cardinality({i \in 1..Len(errors) : errors[i] = e})

\* JavaScript's relational operators on numbers that may be NaN or infinite.
JsLeqZero(v) == IF v.k = "nan" THEN FALSE ELSE v.m <= 0
JsLtZero(v) == IF v.k = "nan" THEN FALSE ELSE v.m < 0
JsSumGt(a, b, limit) ==
    IF a.k = "nan" \/ b.k = "nan" THEN FALSE
    ELSE IF a.k = "inf" \/ b.k = "inf" THEN
        (IF a.k = "inf" /\ b.k = "inf" THEN a.m = b.m /\ a.m > 0
         ELSE IF a.k = "inf" THEN a.m > 0 ELSE b.m > 0)
    ELSE NumGt(NumAdd(a, b), Num(limit))

BoundsCallDone ==
    out.done /\ call.fn = "validateAreaBounds" /\ call.areaConfig.t = "obj"

CoordOf(field) == ToNumber(Get(call.areaConfig, field))

AllMessages ==
    {NotANumber(f) : f \in {K_x, K_y, K_width, K_height}}
    \cup {NotPositive(K_width), NotPositive(K_height), Negative(K_x), Negative(K_y),
          RightOverflow, BottomOverflow}

\* The claim as stated: each listed condition, read on the numbers as
\* JavaScript compares them, gives exactly one violation.
ConditionHolds(e) ==
    \/ \E f \in {K_x, K_y, K_width, K_height} : e = NotANumber(f) /\ ~IsFinite(CoordOf(f))
    \/ \E f \in {K_width, K_height} : e = NotPositive(f) /\ JsLeqZero(CoordOf(f))
    \/ \E f \in {K_x, K_y} : e = Negative(f) /\ JsLtZero(CoordOf(f))
    \/ e = RightOverflow /\ JsSumGt(CoordOf(K_x), CoordOf(K_width), call.naturalWidth)
    \/ e = BottomOverflow /\ JsSumGt(CoordOf(K_y), CoordOf(K_height), call.naturalHeight)

\* C10 as stated: one violation per condition that holds and none otherwise.
C10_OnePerCondition ==
    BoundsCallDone =>
        /\ \A i \in 1..Len(out.result.errors) : out.result.errors[i] \in AllMessages
        /\ \A e \in AllMessages :
              Count(out.result.errors, e) = (IF ConditionHolds(e) THEN 1 ELSE 0)
        /\ out.result.isValid <=> (out.result.errors = <<>>)

\* The amended reading: a sign condition counts only for a finite field, an
\* edge condition only when both of its fields are finite.
FiniteConditionHolds(e) ==
    \/ \E f \in {K_x, K_y, K_width, K_height} : e = NotANumber(f) /\ ~IsFinite(CoordOf(f))
    \/ \E f \in {K_width, K_height} :
          e = NotPositive(f) /\ IsFinite(CoordOf(f)) /\ CoordOf(f).m <= 0
    \/ \E f \in {K_x, K_y} : e = Negative(f) /\ IsFinite(CoordOf(f)) /\ CoordOf(f).m < 0
    \/ /\ e = RightOverflow
       /\ IsFinite(CoordOf(K_x)) /\ IsFinite(CoordOf(K_width))
       /\ JsSumGt(CoordOf(K_x), CoordOf(K_width), call.naturalWidth)
    \/ /\ e = BottomOverflow
       /\ IsFinite(CoordOf(K_y)) /\ IsFinite(CoordOf(K_height))
       /\ JsSumGt(CoordOf(K_y), CoordOf(K_height), call.naturalHeight)

\* C10 (amended): validateAreaBounds reports exactly one violation for each
\* condition that holds on finite fields (and one per non-finite field), none
\* otherwise, and isValid is true exactly when the list is empty; the region
\* 10,10,100,100 on a 90x200 image gets the right-edge violation alone.
C10_OnePerFiniteCondition ==
    BoundsCallDone =>
        /\ \A i \in 1..Len(out.result.errors) : out.result.errors[i] \in AllMessages
        /\ \A e \in AllMessages :
              Count(out.result.errors, e) = (IF FiniteConditionHolds(e) THEN 1 ELSE 0)
        /\ out.result.isValid <=> (out.result.errors = <<>>)
        /\ (/\ call.areaConfig = Box(Num(10), Num(10), Num(100), Num(100))
            /\ call.naturalWidth = 90 /\ call.naturalHeight = 200)
           => out.result.errors = <<RightOverflow>>

C10_Witness ==
    /\ BoundsCallDone
    /\ call.areaConfig = Box(Num(10), Num(10), Num(100), Num(100))
    /\ call.naturalWidth = 90 /\ call.naturalHeight = 200
    /\ out.result = [isValid |-> FALSE, errors |-> <<RightOverflow>>]

-----------------------------------------------------------------------------
(* Calls of the Tolerant Parser and of the Schema Validator.  The texts    *)
(* are written in two styles: strict JSON, and the near-JSON export with   *)
(* unquoted keys and values.                                               *)

Quoted(s) == <<"\"">> \o s \o <<"\"">>

\* One key: value pair; a pair is <<key, value text, "str" or "num">>.
PairText(style, pair) ==
    (IF style = "strict" THEN Quoted(pair[1]) ELSE pair[1])
    \o <<":", " ">>
    \o (IF style = "strict" /\ pair[3] = "str" THEN Quoted(pair[2]) ELSE pair[2])

ObjectText(style, pairs) ==
    <<"{">> \o JoinWith([k \in 1..Len(pairs) |-> PairText(style, pairs[k])], <<",", " ">>)
            \o <<"}">>

ArrayText(style, objects) ==
    <<"[">> \o JoinWith([k \in 1..Len(objects) |-> ObjectText(style, objects[k])],
                        <<",", " ">>)
            \o <<"]">>

\* The value a pair is meant to denote: a decimal comma is a decimal point.
IntendedValue(pair) ==
    IF pair[3] = "str" THEN Str(pair[2])
    ELSE StringToNumber(ReplaceFirstChar(pair[2], ",", <<".">>))

RECURSIVE IntendedFields(_)
IntendedFields(pairs) ==
    IF pairs = <<>> THEN <<>>
    ELSE (pairs[1][1] :> IntendedValue(pairs[1])) @@ IntendedFields(Tail(pairs))

IntendedArray(objects) ==
    Arr([k \in 1..Len(objects) |-> Obj(IntendedFields(objects[k]))])

PierA == <<"P", "i", "e", "r", " ", "A">>
NameTexts == {PierA, <<"B">>}
NumberTexts == {<<"1", "0">>, <<"5", ",", "5">>, <<"5", ".", "5">>, <<"-", "3">>}

DataRecord(n, xt, yt) == << <<K_name, n, "str">>, <<K_x, xt, "num">>, <<K_y, yt, "num">> >>

Padding == {<<>>, <<" ">>, <<"\n", " ">>}

DataCalls ==
    {[fn |-> "parseDataString", style |-> st,
      dataString |-> Str(ArrayText(st, <<DataRecord(n, xt, yt)>>)),
      intended |-> IntendedArray(<<DataRecord(n, xt, yt)>>)] :
        st \in {"strict", "loose"}, n \in NameTexts, xt \in NumberTexts, yt \in NumberTexts}
    \cup
    {[fn |-> "parseDataString", style |-> st,
      dataString |-> Str(pad \o ArrayText(st, <<DataRecord(PierA, <<"1", "0">>, yt),
                                               DataRecord(<<"B">>, yt, <<"-", "3">>)>>)
                         \o pad),
      intended |-> IntendedArray(<<DataRecord(PierA, <<"1", "0">>, yt),
                                   DataRecord(<<"B">>, yt, <<"-", "3">>)>>)] :
        st \in {"strict", "loose"}, yt \in NumberTexts, pad \in Padding}
    \cup
    {[fn |-> "parseDataString", style |-> "other", dataString |-> d, intended |-> Null] :
        d \in {Null, Undefined, Str(<<>>), Str(<<" ">>), Arr(<<>>), Str(<<"[", "]">>),
               Str(<<" ", "[", " ", "]", "\n">>), Str(<<"[", "1", ",", " ", "2", "]">>),
               Str(<<"{", "\"", "a", "\"", ":", "1", "}">>), Str(<<"n", "u", "l", "l">>),
               Str(<<"7">>), Str(<<"[", "{", "a", ":", " ", "}", "]">>)}}

\* Region texts: a full region, and regions with a field left out or mistyped.
FullRegion(n) ==
    << <<K_name, n, "str">>, <<K_x, <<"1", "0">>, "num">>, <<K_y, <<"5">>, "num">>,
       <<K_width, <<"2", "0">>, "num">>, <<K_height, <<"3", "0">>, "num">>,
       <<K_matchField, <<"f">>, "str">> >>

Without(pairs, key) == SelectSeq(pairs, LAMBDA pr : pr[1] # key)

RegionVariants(n) ==
    {FullRegion(n), Without(FullRegion(n), K_matchField), Without(FullRegion(n), K_name),
     Without(Without(FullRegion(n), K_x), K_matchField), Without(FullRegion(n), K_height),
     [FullRegion(n) EXCEPT ![1] = <<K_name, <<"7">>, "num">>],
     [FullRegion(n) EXCEPT ![2] = <<K_x, <<"1", ",", "5">>, "str">>]}

RegionLists ==
    {<<a>> : a \in RegionVariants(<<"A">>)}
    \cup {<<a, b>> : a \in RegionVariants(<<"A">>), b \in RegionVariants(<<"B">>)}

AreasCalls ==
    {[fn |-> "parseInteractiveAreasString", style |-> st,
      rawString |-> Str(ArrayText(st, rs))] :
        st \in {"strict", "loose"}, rs \in RegionLists}
    \cup
    {[fn |-> "parseInteractiveAreasString", style |-> "other", rawString |-> d] :
        d \in {Null, Str(<<" ">>), Str(<<"[", "]">>), Str(<<"[", "n", "u", "l", "l", "]">>),
               Str(<<"{", "}">>), Str(<<"[", "{">>)}}

ValidatorCalls ==
    {[fn |-> "validateInteractiveAreasData", data |-> IntendedArray(rs)] : rs \in RegionLists}
    \cup
    {[fn |-> "validateInteractiveAreasData", data |-> d] :
        d \in {Null, Obj(<<>>), Arr(<<Null>>), Arr(<<Str(<<"A">>)>>)}}

InitParse ==
    /\ BeforeBootstrap(BareHost)
    /\ call \in DataCalls \cup AreasCalls \cup ValidatorCalls
    /\ out = NotCalled

CallParseDataString ==
    /\ call.fn = "parseDataString"
    /\ ~out.done
    /\ out' = [done |-> TRUE, result |-> parseDataString(call.dataString)]
    /\ UNCHANGED <<call, pageVars>>

CallParseInteractiveAreasString ==
    /\ call.fn = "parseInteractiveAreasString"
    /\ ~out.done
    /\ out' = [done |-> TRUE, result |-> parseInteractiveAreasString(call.rawString)]
    /\ UNCHANGED <<call, pageVars>>

CallValidateInteractiveAreasData ==
    /\ call.fn = "validateInteractiveAreasData"
    /\ ~out.done
    /\ out' = [done |-> TRUE, result |-> validateInteractiveAreasData(call.data)]
    /\ UNCHANGED <<call, pageVars>>

NextParse ==
    \/ CallParseDataString
    \/ CallParseInteractiveAreasString
    \/ CallValidateInteractiveAreasData

SpecParse == InitParse /\ [][NextParse]_vars

-----------------------------------------------------------------------------
(* Claims about the Tolerant Parser and the Schema Validator.              *)

PierExample ==
    <<"[", "{", "n", "a", "m", "e", ":", " ", "P", "i", "e", "r", " ", "A", ",", " ",
      "x", ":", " ", "1", "0", ",", " ", "y", ":", " ", "5", ",", "5", "}", "]">>

\* C7: on text with unquoted keys and comma-decimal numbers parseDataString
\* succeeds and returns the intended records; [{name: Pier A, x: 10, y: 5,5}]
\* gives one record with name "Pier A", x 10 and y 5.5.
C7_RepairYieldsIntended ==
    (out.done /\ call.fn = "parseDataString" /\ call.style = "loose") =>
        /\ out.result.ok
        /\ out.result.v = call.intended
        /\ call.dataString = Str(PierExample) =>
              out.result.v = Arr(<<Obj((K_name :> Str(PierA)) @@ (K_x :> Num(10))
                                       @@ (K_y :> Dec(55, 1)))>>)

\* C8: for text that JSON.parse accepts and that parses to an array,
\* parseDataString returns that array and does not run the repair pass.
C8_StrictFastPath ==
    (/\ out.done /\ call.fn = "parseDataString" /\ call.dataString.t = "str"
     /\ JSONparse(call.dataString.s).ok
     /\ JSONparse(call.dataString.s).v.t = "arr")
    => out.result = Returned(JSONparse(call.dataString.s).v, "strict")

C8_Witness ==
    /\ out.done /\ call.fn = "parseDataString" /\ call.style = "strict"
    /\ Head(call.dataString.s) = "\n"
    /\ out.result.ok /\ out.result.path = "strict"
    /\ Len(out.result.v.a) = 2
    /\ Get(out.result.v.a[2], K_x) = Dec(55, 1)

\* Whether some object of the sequence lacks a required field.
LacksRequired(area) ==
    \E n \in 1..Len(RequiredFields) : Get(area, RequiredFields[n]) = Undefined

NamesMissingField(result, areas) ==
    /\ ~result.ok
    /\ result.err.kind = "MissingField"
    /\ result.err.index \in 1..Len(areas)
    /\ \E n \in 1..Len(RequiredFields) : result.err.field = RequiredFields[n]
    /\ Get(areas[result.err.index], result.err.field) = Undefined

\* The Region-like objects of a call: the argument of the validator, or what
\* the region text denotes.
GivenAreas ==
    IF call.fn = "validateInteractiveAreasData" THEN call.data
    ELSE IF call.fn = "parseInteractiveAreasString" /\ call.rawString.t = "str"
            /\ JSONparse(call.rawString.s).ok
    THEN JSONparse(call.rawString.s).v
    ELSE Null

\* C9: when some region object lacks a required field, validation fails with
\* an error naming a field that is missing and the 1-based index of the
\* region that lacks it; a region missing only matchField is reported as
\* missing matchField.
C9_MissingFieldNamed ==
    (/\ out.done
     /\ GivenAreas.t = "arr"
     /\ \A i \in 1..Len(GivenAreas.a) : GivenAreas.a[i].t = "obj"
     /\ \E i \in 1..Len(GivenAreas.a) : LacksRequired(GivenAreas.a[i]))
    => NamesMissingField(out.result, GivenAreas.a)

-----------------------------------------------------------------------------
(* The page as a state machine: bootstrap, then the browser's events in    *)
(* any order.  A timer's callback runs when its delay has elapsed; the     *)
(* model keeps no clock, so any active timer may be the next to run.       *)

\* Region payloads.  Against a 90 x 200 image region A overflows the right
\* edge; region C has a negative x against any image.
AreaA ==
    << <<K_name, <<"A">>, "str">>, <<K_x, <<"1", "0">>, "num">>, <<K_y, <<"1", "0">>, "num">>,
       <<K_width, <<"1", "0", "0">>, "num">>, <<K_height, <<"1", "0", "0">>, "num">>,
       <<K_matchField, <<"f">>, "str">> >>
AreaB ==
    << <<K_name, <<"B">>, "str">>, <<K_x, <<"0">>, "num">>, <<K_y, <<"0">>, "num">>,
       <<K_width, <<"5", "0">>, "num">>, <<K_height, <<"5", "0">>, "num">>,
       <<K_matchField, <<"f">>, "str">> >>
AreaC ==
    << <<K_name, <<"C">>, "str">>, <<K_x, <<"-", "5">>, "num">>, <<K_y, <<"0">>, "num">>,
       <<K_width, <<"5", "0">>, "num">>, <<K_height, <<"5", "0">>, "num">>,
       <<K_matchField, <<"f">>, "str">> >>

GoodAreasText == ArrayText("strict", <<AreaA, AreaC, AreaB>>)
LooseAreasText == ArrayText("loose", <<AreaA, AreaB>>)
SchemaErrorAreasText == ArrayText("strict", <<AreaB, Without(AreaA, K_height)>>)
SyntaxErrorAreasText == <<"[", "{", "]">>
EmptyAreasText == <<"[", "]">>
AreasUrl == <<"a", "r", "e", "a", "s", ".", "j", "s", "o", "n">>
AreasDrivePath == <<"C", ":", "\\", "a", ".", "j", "s", "o", "n">>

GoodDataText ==
    ArrayText("strict", << << <<K_f, <<"B">>, "str">> >>, << <<K_f, <<"x">>, "str">> >> >>)
BadDataText == <<"[", "{", "f", ":", "]">>

HostAreas ==
    {Undefined, Str(GoodAreasText), Str(LooseAreasText), Str(SchemaErrorAreasText),
     Str(SyntaxErrorAreasText), Str(EmptyAreasText), Str(AreasUrl)}

HostData ==
    {Undefined, Str(GoodDataText), Str(BadDataText),
     Arr(<<Obj(K_f :> Str(<<"B">>))>>), Obj(K_f :> Str(<<"B">>))}

HostImagePaths == {Undefined, Str(<<>>), Str(<<"m", ".", "p", "n", "g">>)}
ImageDrivePath == <<"C", ":", "\\", "m", ".", "p", "n", "g">>

\* Pages served over http, and pages opened from a Windows disk.
Hosts ==
    [mapImagePath : HostImagePaths, interactiveAreasData : HostAreas,
     externalData : HostData, protocol : {"http:"}]
    \cup [mapImagePath : {Str(ImageDrivePath)},
          interactiveAreasData : {Str(AreasDrivePath), Str(GoodAreasText)},
          externalData : {Undefined, Str(GoodDataText)}, protocol : {"file:"}]

NaturalSizes == {<<90, 200>>, <<200, 200>>}
ClientSizes == {<<0, 0>>, <<100, 100>>}

\* What the browser may have for a src the moment it is assigned.
CachedImages ==
    {[complete |-> FALSE, natural |-> <<0, 0>>, client |-> <<0, 0>>]}
    \cup {[complete |-> TRUE, natural |-> n, client |-> c] :
              n \in NaturalSizes, c \in ClientSizes}

\* What the fetch of the region resource may settle with.
Responses ==
    {[kind |-> "rejected", text |-> Undefined], [kind |-> "not ok", text |-> Undefined]}
    \cup {[kind |-> "body", text |-> Str(t)] :
              t \in {GoodAreasText, SchemaErrorAreasText, SyntaxErrorAreasText,
                     EmptyAreasText}}

NoCall == [fn |-> "none"]

Init ==
    /\ \E h \in Hosts : BeforeBootstrap(h)
    /\ call = NoCall
    /\ out = NotCalled

\* DOMContentLoaded.
Bootstrap ==
    /\ pc = "loading"
    /\ \E cached \in CachedImages : Step(bootstrap(Cur, cached))
    /\ pc' = "ready"
    /\ UNCHANGED <<host, call, out>>

\* The image's load event.
ImageLoad ==
    /\ pc = "ready"
    /\ image.pending
    /\ image.listeners
    /\ \E n \in NaturalSizes, c \in ClientSizes :
           Step(onImageLoad([Cur EXCEPT !.image.pending = FALSE, !.image.natural = n,
                                          !.image.client = c]))
    /\ UNCHANGED <<host, pc, call, out>>

\* The image's error event.
ImageError ==
    /\ pc = "ready"
    /\ image.pending
    /\ image.listeners
    /\ Step(onImageError([Cur EXCEPT !.image.pending = FALSE,
                                       !.loadFailures = Bump(@)]))
    /\ UNCHANGED <<host, pc, call, out>>

\* The fetch settles and loadInteractiveAreas resumes.
FetchSettles ==
    /\ pc = "ready"
    /\ fetchState.state = "pending"
    /\ \E response \in Responses : Step(resumeLoadInteractiveAreas(Cur, response))
    /\ UNCHANGED <<host, pc, call, out>>

\* The delay of the status indicator's hide timer elapses.
StatusHideTimer ==
    /\ pc = "ready"
    /\ \E t \in timers :
           /\ t.fn = "hideStatus"
           /\ Step(runTimer([Cur EXCEPT !.timers = @ \ {t}], t))
    /\ UNCHANGED <<host, pc, call, out>>

\* The delay of a popup timer elapses.
PopupTimer ==
    /\ pc = "ready"
    /\ \E t \in timers :
           /\ t.fn = "showPopup"
           /\ Step(runTimer([Cur EXCEPT !.timers = @ \ {t}], t))
    /\ UNCHANGED <<host, pc, call, out>>

\* The window's resize event; the image is laid out anew.
Resize ==
    /\ pc = "ready"
    /\ \E c \in ClientSizes : Step(renderInteractiveAreas([Cur EXCEPT !.image.client = c]))
    /\ UNCHANGED <<host, pc, call, out>>

\* The pointer enters a region.
MouseEnter ==
    /\ pc = "ready"
    /\ enters < MaxEnters
    /\ \E i \in 1..Len(overlays) :
           Step(onMouseEnter([Cur EXCEPT !.lastPointer = "enter", !.enters = @ + 1],
                               overlays[i]))
    /\ UNCHANGED <<host, pc, call, out>>

\* The pointer leaves the region it is over.
MouseLeave ==
    /\ pc = "ready"
    /\ lastPointer = "enter"
    /\ Step(onMouseLeave([Cur EXCEPT !.lastPointer = "leave"]))
    /\ UNCHANGED <<host, pc, call, out>>

\* A click outside the popup and the regions.
DocumentClick ==
    /\ pc = "ready"
    /\ Step(closePopup(Cur))
    /\ UNCHANGED <<host, pc, call, out>>

Next ==
    \/ Bootstrap
    \/ ImageLoad
    \/ ImageError
    \/ FetchSettles
    \/ StatusHideTimer
    \/ PopupTimer
    \/ Resize
    \/ MouseEnter
    \/ MouseLeave
    \/ DocumentClick

Spec == Init /\ [][Next]_vars

-----------------------------------------------------------------------------
(* Claims about the page.                                                  *)

\* C1: a failed image load leads to at most one further attempt, and that
\* attempt is for yard_map.jpg; the error overlay is visible only once that
\* attempt has failed too; from then on the overlay stays visible and no
\* load is started.
C1_ImageFallbackOnce ==
    /\ [](/\ srcSets <= 2
          /\ srcSets = 2 =>
                /\ mapLoadFallbackTried
                /\ loadFailures >= 1
                /\ image.src = fallbackRelativePath
          /\ mapErrorVisible =>
                /\ srcSets = 2
                /\ loadFailures = 2
                /\ ~image.pending)
    /\ [][mapErrorVisible =>
              /\ mapErrorVisible'
              /\ srcSets' = srcSets
              /\ ~image'.pending]_vars

C1_Witness ==
    /\ mapErrorVisible
    /\ mapLoadFallbackTried
    /\ srcSets = 2
    /\ loadFailures = 2
    /\ image.src = fallbackRelativePath

PopupTimers == {t \in timers : t.fn = "showPopup"}

\* C2: at most one popup timer is pending, the one of the latest pointer-enter,
\* set for POPUP_DELAY; after a pointer-leave none is pending and the popup is
\* hidden; the popup becomes visible only in the step in which the timer of
\* the latest pointer-enter expires.
C2_PopupAfterDelayOnly ==
    /\ [](/\ Cardinality(PopupTimers) <= 1
          /\ \A t \in PopupTimers : t.id = popupTimer /\ t.delay = POPUP_DELAY
          /\ lastPointer = "leave" => PopupTimers = {} /\ ~popup.visible
          /\ lastPointer = "none" => PopupTimers = {} /\ ~popup.visible)
    /\ [][(~popup.visible /\ popup'.visible) =>
              /\ lastPointer = "enter"
              /\ \E t \in PopupTimers : t.id = popupTimer /\ t \notin timers']_vars

\* The pointer entered twice; the first timer is gone and the second expired.
C2_Witness ==
    /\ popup.visible
    /\ enters = 2
    /\ lastPointer = "enter"
    /\ PopupTimers = {}
    /\ popup.header \in {Str(<<"A">>), Str(<<"B">>)}

\* C3: once a payload has failed parsing or schema validation, the status
\* indicator is visible and in its error state, in every later state.
C3_ErrorStatusPersists ==
    parseFailed => (status.display /\ status.error)

\* The claim's list of violations, read off a region and an image size.
Violates(areaConfig, naturalWidth, naturalHeight) ==
    LET x == ToNumber(Get(areaConfig, K_x))
        y == ToNumber(Get(areaConfig, K_y))
        width == ToNumber(Get(areaConfig, K_width))
        height == ToNumber(Get(areaConfig, K_height))
    IN  \/ \E v \in {x, y, width, height} : ~IsFinite(v)
        \/ JsLeqZero(width) \/ JsLeqZero(height)
        \/ JsLtZero(x) \/ JsLtZero(y)
        \/ JsSumGt(x, width, naturalWidth)
        \/ JsSumGt(y, height, naturalHeight)

WithinImage(areaConfig) == ~Violates(areaConfig, image.natural[1], image.natural[2])

\* C4: every overlay in the container is a region without a violation
\* against the image's natural size, and once the overlays are drawn they
\* are all such regions, in order: an invalid region is left out and the
\* others are kept.
C4_OverlaysWithinBounds ==
    /\ \A i \in 1..Len(overlays) : WithinImage(overlays[i])
    /\ overlays \in {<<>>, SelectSeq(interactiveAreas, WithinImage)}
    /\ (/\ mapReady /\ areasReady
        /\ image.client[1] # 0 /\ image.client[2] # 0)
       => overlays = SelectSeq(interactiveAreas, WithinImage)

\* Regions A, C, B on a 90 x 200 image: only B is drawn.
C4_Witness ==
    /\ Len(interactiveAreas) = 3
    /\ image.natural = <<90, 200>>
    /\ Len(overlays) = 1
    /\ Get(overlays[1], K_name) = Str(<<"B">>)

\* The region payloads whose loading fails or yields no region.
FailingAreasTexts == {SchemaErrorAreasText, SyntaxErrorAreasText, EmptyAreasText}

\* Initialization is over and the region payload, given inline or fetched,
\* failed to load or was an empty array.
RegionLoadFailed ==
    /\ pc = "ready"
    /\ \/ host.interactiveAreasData \in {Str(t) : t \in FailingAreasTexts}
       \/ /\ fetchState.state = "settled"
          /\ \/ fetchState.response.kind \in {"rejected", "not ok"}
             \/ fetchState.response.text \in {Str(t) : t \in FailingAreasTexts}

RecordParseFailed == pc = "ready" /\ host.externalData = Str(BadDataText)

\* C12: after a failed or empty region load interactiveAreas is empty,
\* areasReady is false and no overlay is rendered; after a failed record
\* parse parsedData is null.  Initialization still runs to its end: the
\* image load is started, a region payload that can load is loaded or
\* fetched and a record payload that can be parsed is parsed, whatever
\* happened to the other payload.
C12_FailedLoadLeavesState ==
    /\ RegionLoadFailed => interactiveAreas = <<>> /\ ~areasReady /\ overlays = <<>>
    /\ RecordParseFailed => parsedData = Null
    /\ pc = "ready" =>
          /\ Truthy(host.mapImagePath) \/ host.mapImagePath = Undefined => srcSets >= 1
          /\ host.interactiveAreasData \in {Str(GoodAreasText), Str(LooseAreasText)}
                => areasReady
          /\ host.interactiveAreasData \in {Str(AreasUrl), Str(AreasDrivePath)}
                => fetchState.state # "none"
          /\ host.externalData = Str(GoodDataText) => parsedData # Null
          /\ host.externalData.t = "arr" => parsedData = host.externalData

\* Both payloads failed, the region payload after its fetch, and the image
\* has loaded all the same.
C12_Witness ==
    /\ RegionLoadFailed
    /\ RecordParseFailed
    /\ fetchState.response.kind = "body"
    /\ mapReady
    /\ image.client # <<0, 0>>
    /\ overlays = <<>>

\* The regions of areas without a violation against the size of img.
Drawable(areas, img) ==
    SelectSeq(areas, LAMBDA areaConfig : ~Violates(areaConfig, img.natural[1], img.natural[2]))

HasSize(img) ==
    /\ img.client[1] # 0 /\ img.client[2] # 0
    /\ img.natural[1] # 0 /\ img.natural[2] # 0

\* C13 as stated: overlays exist only when mapReady and areasReady both
\* hold, and the step that makes the second of the two true draws the
\* overlays, whichever of the two it sets.
C13_DrawnAtSecondReady ==
    /\ [](overlays # <<>> => mapReady /\ areasReady)
    /\ [][(~(mapReady /\ areasReady) /\ mapReady' /\ areasReady')
              => overlays' = Drawable(interactiveAreas', image')]_vars

\* C13, amended: overlays exist only when mapReady and areasReady both
\* hold; the step that makes the second of the two true draws the overlays
\* if the image then has a non-zero displayed and natural size, and draws
\* nothing if it has not; whenever both hold and the image has a size, the
\* overlays are drawn.
C13_DrawnAtSecondReadyIfSized ==
    /\ [](overlays # <<>> => mapReady /\ areasReady)
    /\ []((mapReady /\ areasReady /\ HasSize(image))
            => overlays = Drawable(interactiveAreas, image))
    /\ [][(~(mapReady /\ areasReady) /\ mapReady' /\ areasReady')
              => overlays' = IF HasSize(image') THEN Drawable(interactiveAreas', image')
                             ELSE <<>>]_vars

\* The region fetch settled before the image was ready, and the image's
\* load event then drew the overlays.
C13_Witness ==
    /\ fetchState.state = "settled"
    /\ ~fetchState.imageReadyBefore
    /\ image.listeners
    /\ mapReady /\ areasReady
    /\ HasSize(image)
    /\ Len(overlays) = 2

-----------------------------------------------------------------------------
(* The consistency checker: scripts/validateAreas.js.  argv is a sequence  *)
(* of tokens, the file system a function from paths to files; a path       *)
(* outside its domain does not exist.  A throwing function returns         *)
(* [ok |-> FALSE, message |-> ...].                                        *)

REQUIRED_AREA_FIELDS == <<K_name, K_x, K_y, K_width, K_height, K_matchField>>

CliError(message) == [ok |-> FALSE, message |-> message]
CliValue(v) == [ok |-> TRUE, v |-> v]

\* options.data is <<>> for null and <<path>> once set.
DefaultOptions == [areas |-> "interactiveAreas.json", data |-> <<>>]

\* The for loop of parseArgs from index i; "exit 0" is process.exit(0)
\* after printUsage.
RECURSIVE parseArgsFrom(_, _, _)
parseArgsFrom(argv, i, options) ==
    IF i > Len(argv)
    THEN IF options.data = <<>> \/ options.data = <<"">>
         THEN CliError("Path to data file is required")
         ELSE CliValue(options)
    ELSE IF argv[i] \in {"--areas", "-a"}
    THEN IF i + 1 > Len(argv) \/ argv[i + 1] = ""
         THEN CliError("Expected a value after --areas/-a")
         ELSE parseArgsFrom(argv, i + 2, [options EXCEPT !.areas = argv[i + 1]])
    ELSE IF argv[i] \in {"--data", "-d"}
    THEN IF i + 1 > Len(argv) \/ argv[i + 1] = ""
         THEN CliError("Expected a value after --data/-d")
         ELSE parseArgsFrom(argv, i + 2, [options EXCEPT !.data = <<argv[i + 1]>>])
    ELSE IF argv[i] \in {"--help", "-h"}
    THEN [ok |-> FALSE, message |-> "exit 0"]
    ELSE CliError("Unknown argument")

parseArgs(argv) == parseArgsFrom(argv, 1, DefaultOptions)

readFile(fs, filePath) ==
    IF filePath \in DOMAIN fs /\ fs[filePath].readable
    THEN CliValue(fs[filePath].content)
    ELSE CliError("Unable to read")

parseJsonArray(rawContent) ==
    With(Trim(rawContent), LAMBDA trimmed :
        IF trimmed = <<>> THEN CliError("is empty")
        ELSE With(JSONparse(trimmed), LAMBDA parsed :
                IF ~parsed.ok THEN CliError("Failed to parse")
                ELSE IF parsed.v.t # "arr" THEN CliError("Failed to parse: must be a JSON array")
                ELSE CliValue(parsed.v.a)))

\* !item || typeof item !== 'object', on a value JSON.parse returned.
NotTypeofObject(item) == ~Truthy(item) \/ item.t \notin {"obj", "arr"}

validateAreasShape(areas) ==
    With({i \in 1..Len(areas) :
             \/ NotTypeofObject(areas[i])
             \/ \E k \in 1..Len(REQUIRED_AREA_FIELDS) :
                    Get(areas[i], REQUIRED_AREA_FIELDS[k]) = Undefined}, LAMBDA bad :
        IF bad = {} THEN CliValue(areas)
        ELSE IF NotTypeofObject(areas[MinOf(bad)]) THEN CliError("Area must be an object")
        ELSE CliError("Area is missing required field"))

ensureDataObjects(dataArray) ==
    IF \E i \in 1..Len(dataArray) : NotTypeofObject(dataArray[i])
    THEN CliError("Data entry must be an object")
    ELSE CliValue(dataArray)

\* The warnings array after areas.forEach.
RECURSIVE areaWarnings(_, _)
areaWarnings(areas, data) ==
    IF areas = <<>> THEN <<>>
    ELSE With(areaWarning(areas[1], data), LAMBDA warning :
            (IF warning = "none" THEN <<>> ELSE <<warning>>)
            \o areaWarnings(Tail(areas), data))

\* process.exit(1) after console.error, in the catch of main.
Exit1(message) == [exitCode |-> 1, error |-> message, warnings |-> <<>>, stdout |-> "none"]

Finished(warnings) ==
    [exitCode |-> 0, error |-> "none", warnings |-> warnings,
     stdout |-> IF warnings = <<>> THEN "success" ELSE "none"]

main(argv, fs) ==
    With(parseArgs(argv), LAMBDA options :
    IF ~options.ok
    THEN IF options.message = "exit 0"
         THEN [exitCode |-> 0, error |-> "none", warnings |-> <<>>, stdout |-> "usage"]
         ELSE Exit1(options.message)
    ELSE With(readFile(fs, options.v.areas), LAMBDA areasContent :
    IF ~areasContent.ok THEN Exit1(areasContent.message)
    ELSE With(readFile(fs, options.v.data[1]), LAMBDA dataContent :
    IF ~dataContent.ok THEN Exit1(dataContent.message)
    ELSE With(parseJsonArray(areasContent.v), LAMBDA areasArray :
    IF ~areasArray.ok THEN Exit1(areasArray.message)
    ELSE With(validateAreasShape(areasArray.v), LAMBDA areas :
    IF ~areas.ok THEN Exit1(areas.message)
    ELSE With(parseJsonArray(dataContent.v), LAMBDA dataArray :
    IF ~dataArray.ok THEN Exit1(dataArray.message)
    ELSE With(ensureDataObjects(dataArray.v), LAMBDA data :
    IF ~data.ok THEN Exit1(data.message)
    ELSE Finished(areaWarnings(areas.v, data.v)))))))))

-----------------------------------------------------------------------------
(* Runs of the consistency checker over bounded command lines and files.   *)

MaxArgs == 2

ArgTokens == {"--data", "-a", "--help", "--bogus", "d.json", "a.json"}

RECURSIVE ArgvUpTo(_)
ArgvUpTo(n) ==
    IF n = 0 THEN {<<>>}
    ELSE ArgvUpTo(n - 1)
         \cup {Append(argv, token) : argv \in {a \in ArgvUpTo(n - 1) : Len(a) = n - 1},
                                     token \in ArgTokens}

Argvs ==
    ArgvUpTo(MaxArgs)
    \cup {<<"--areas", "a.json", "--data", "d.json">>, <<"-d", "d.json", "-a", "a.json">>,
          <<"--data", "d.json", "-h">>, <<"--data", "d.json", "--data", "a.json">>}

File(content) == [readable |-> TRUE, content |-> content]
Unreadable == [readable |-> FALSE, content |-> <<>>]

MatchedAreasText == ArrayText("strict", <<AreaB>>)

AreasFiles ==
    {File(GoodAreasText), File(MatchedAreasText), File(SchemaErrorAreasText),
     File(SyntaxErrorAreasText), File(EmptyAreasText), File(<<"[", "n", "u", "l", "l", "]">>),
     File(<<"[", "[", "]", "]">>), File(<<" ", "\n">>), Unreadable}

DataFiles ==
    {File(GoodDataText), File(EmptyAreasText), File(BadDataText), File(<<>>),
     File(<<"{", "}">>), File(<<"[", "7", "]">>), File(<<"[", "[", "\"", "B", "\"", "]", "]">>)}

FileSystems ==
    {("a.json" :> a) @@ ("d.json" :> d) @@ extra :
        a \in AreasFiles, d \in DataFiles,
        extra \in {<<>>, "interactiveAreas.json" :> File(MatchedAreasText)}}

CliCalls == {[fn |-> "main", argv |-> argv, fs |-> fs] : argv \in Argvs, fs \in FileSystems}

InitCli ==
    /\ BeforeBootstrap(BareHost)
    /\ call \in CliCalls
    /\ out = NotCalled

CallMain ==
    /\ call.fn = "main"
    /\ ~out.done
    /\ out' = [done |-> TRUE, result |-> main(call.argv, call.fs)]
    /\ UNCHANGED <<call, pageVars>>

NextCli == CallMain

SpecCli == InitCli /\ [][NextCli]_vars

-----------------------------------------------------------------------------
(* Claims about the consistency checker.                                   *)

\* The file a run reads for one of its two inputs, <<>> if there is none.
FileAt(filePath) ==
    IF filePath \in DOMAIN call.fs /\ call.fs[filePath].readable
    THEN <<call.fs[filePath].content>> ELSE <<>>

\* The content is a JSON array: the entries, in a one-element sequence.
EntriesOf(file) ==
    IF file = <<>> \/ Trim(file[1]) = <<>> THEN <<>>
    ELSE LET parsed == JSONparse(Trim(file[1]))
         IN  IF parsed.ok /\ parsed.v.t = "arr" THEN <<parsed.v.a>> ELSE <<>>

IsJsonObject(v) == v.t = "obj"

\* A fatal error of the claim's list, for a run whose command line named
\* the two files.
FatalError(options) ==
    LET areas == EntriesOf(FileAt(options.areas))
        data == EntriesOf(FileAt(options.data[1]))
    IN  \/ areas = <<>>
        \/ data = <<>>
        \/ \E i \in 1..Len(areas[1]) :
              \/ ~IsJsonObject(areas[1][i])
              \/ \E k \in 1..Len(RequiredFields) :
                    Get(areas[1][i], RequiredFields[k]) = Undefined
        \/ \E i \in 1..Len(data[1]) : ~IsJsonObject(data[1][i])

\* C11: the run exits with code 1 exactly when a fatal error occurs (a file
\* missing or unreadable, no --data or a command line that cannot be read,
\* content that is empty, not JSON or not an array, an area or data entry
\* that is not an object, an area without a required field), and with code
\* 0 otherwise, warnings or not; a request for help exits with 0.
C11_ExitCodeOneIffFatal ==
    (out.done /\ call.fn = "main") =>
        LET options == parseArgs(call.argv)
        IN  /\ out.result.exitCode \in {0, 1}
            /\ out.result.exitCode = 1 <=>
                  IF options.ok THEN FatalError(options.v)
                  ELSE options.message # "exit 0"
            /\ out.result.warnings # <<>> => out.result.exitCode = 0

====
